---------------------------- MODULE Spec2Model ----------------------------
(***************************************************************************)
(* State-machine model of the NSS server (src/index.js): the Express       *)
(* handlers over the users and guards collections of a MongoDB store.      *)
(*                                                                         *)
(* JavaScript values are encoded as strings: "undefined" (key absent),     *)
(* "null", "false", "true", "" (the empty string) and ordinary strings.    *)
(* A document is a record over a fixed key set; a key whose value is       *)
(* "undefined" is absent from the document.  A collection is the sequence  *)
(* of its documents in insertion order; a document's _id is its index.     *)
(* Every handler is split at its awaits: one step for the arrival and the  *)
(* synchronous prefix, then one step per store call together with the      *)
(* synchronous code that follows it.                                       *)
(***************************************************************************)
EXTENDS Integers, Sequences, FiniteSets, TLC

VARIABLES users, messages, guards, reqs, now, issued, proc

vars == <<users, messages, guards, reqs, now, issued, proc>>

\* The keys of the model's records.  TLC orders the fields of a record by the
\* first occurrence of their names in the module: every record below lists
\* its keys in this order.
Keys ==
    [route |-> 1, pc |-> 2, email |-> 3, isAdmin |-> 4, emailVerified |-> 5,
     password |-> 6, firebaseUID |-> 7, role |-> 8, createdAt |-> 9,
     updatedAt |-> 10, lastLogin |-> 11, requestingAdminEmail |-> 12, id |-> 13,
     body |-> 14, local |-> 15, ops |-> 16, resp |-> 17, ok |-> 18,
     status |-> 19, data |-> 20, name |-> 21, phone |-> 22, nid |-> 23,
     address |-> 24, joinDate |-> 25, dutyPlace |-> 26, dutyTime |-> 27,
     transactions |-> 28, presence |-> 29, initialTransactions |-> 30,
     initialPresence |-> 31, type |-> 32, amount |-> 33, date |-> 34,
     note |-> 35, kind |-> 36, items |-> 37, message |-> 38, userId |-> 39,
     userEmail |-> 40, isRead |-> 41, phase |-> 42, conn |-> 43,
     listening |-> 44, signalled |-> 45, code |-> 46]

(***************************************************************************)
(* Bounds                                                                  *)
(***************************************************************************)
MaxInflight == 2
MaxRequests == 2
MaxClock == 1

(***************************************************************************)
(* JavaScript values                                                       *)
(***************************************************************************)
Undef == "undefined"
Null == "null"

\* if (v) ... : undefined, null, false, "" and 0 are falsy (a number n is
\* written "#n")
Truthy(v) == v \notin {"undefined", "null", "false", "", "#0"}

\* typeof v === 'boolean'
TypeofBoolean(v) == v \in {"true", "false"}

\* a || b
OrElse(a, b) == IF Truthy(a) THEN a ELSE b

(***************************************************************************)
(* The document store                                                      *)
(***************************************************************************)
\* equality match of a filter {key: f} against a stored value d: the driver
\* sends undefined as null, and null matches a null or a missing field
Matches(d, f) ==
    IF f \in {"undefined", "null"} THEN d \in {"undefined", "null"} ELSE d = f

\* indexes of the documents of coll whose email matches the filter value
EmailHits(coll, email) == {i \in 1..Len(coll) : Matches(coll[i].email, email)}

Min(S) == CHOOSE x \in S : \A y \in S : x <= y

\* collection.findOne({email}) : index of the first match, 0 when none
FindOneByEmail(coll, email) ==
    IF EmailHits(coll, email) = {} THEN 0 ELSE Min(EmailHits(coll, email))

\* collection.findOne({_id: new ObjectId(id)}) : index, 0 when none
FindOneById(coll, id) == IF id \in 1..Len(coll) THEN id ELSE 0

\* new ObjectId(id) throws on a string that is no object id; 0 stands for one
BadId == 0
ValidObjectId(id) == id # BadId

(***************************************************************************)
(* Users: documents, inputs, pure helpers                                  *)
(***************************************************************************)
EmailVals == {"a@x.co", "b@x.co"}

\* const { password, firebaseUID, ...userData } = user
SanitizeLeaky(u) == [u EXCEPT !.password = Undef]
Sanitize(u) == [u EXCEPT !.password = Undef, !.firebaseUID = Undef]

\* find({}).project({password: 0, firebaseUID: 0}).toArray()
ProjectAll(coll) ==
    [i \in 1..Len(coll) |-> [coll[i] EXCEPT !.password = Undef, !.firebaseUID = Undef]]

\* { $set: upd } on one document: every key present in upd overwrites
ApplySet(doc, upd) ==
    [k \in DOMAIN doc |-> IF k \in DOMAIN upd THEN upd[k] ELSE doc[k]]

\* the keys a request body carries
PresentKeys(body) == {k \in DOMAIN body : body[k] # Undef}

\* newUser of POST /users, built from the body at time t: the spread of the
\* body comes first, so its emailVerified and timestamps are overwritten
NewUserTrusting(body, t) ==
    [email |-> body.email, isAdmin |-> body.isAdmin,
     emailVerified |-> body.emailVerified,
     password |-> body.password, firebaseUID |-> body.firebaseUID,
     role |-> body.role, createdAt |-> t, updatedAt |-> t, lastLogin |-> t]
NewUser(body, t) ==
    [email |-> body.email, isAdmin |-> OrElse(body.isAdmin, "false"),
     emailVerified |-> "false",
     password |-> body.password, firebaseUID |-> body.firebaseUID,
     role |-> body.role, createdAt |-> t, updatedAt |-> t, lastLogin |-> t]

\* the guard of PATCH /users/:email: if (updateData.email || updateData.isAdmin)
PatchRejected(body) == Truthy(body.email) \/ Truthy(body.isAdmin)

\* the admin test shared by every privileged route: !u || !u.isAdmin
IsAdminAtAlways(coll, i) == TRUE
IsAdminAt(coll, i) == i # 0 /\ Truthy(coll[i].isAdmin)

EmptyBody ==
    [email |-> Undef, isAdmin |-> Undef, emailVerified |-> Undef,
     password |-> Undef, firebaseUID |-> Undef, role |-> Undef]

\* request bodies of POST /users
CreateBodies ==
    {[email |-> e, isAdmin |-> a, emailVerified |-> a, password |-> p,
      firebaseUID |-> (IF p = Undef THEN Undef ELSE "uid"), role |-> Undef] :
        e \in EmailVals \cup {Undef}, a \in {Undef, "true"}, p \in {Undef, "pw"}}

\* request bodies of PATCH /users/:email
PatchBodies ==
    {EmptyBody, [EmptyBody EXCEPT !.role = "staff"],
     [EmptyBody EXCEPT !.password = "pw2"],
     [EmptyBody EXCEPT !.emailVerified = "true"]}
    \cup {[EmptyBody EXCEPT !.email = v] : v \in {Null, "", "b@x.co"}}
    \cup {[EmptyBody EXCEPT !.isAdmin = v] : v \in {"false", "true"}}

\* request bodies of PATCH /users/admin/:id
AdminBodies ==
    {[isAdmin |-> a, requestingAdminEmail |-> e] :
        a \in {"true", "false", "yes"}, e \in EmailVals \cup {Undef}}

\* the caller email of a query string: a value or absent
QueryEmails == EmailVals \cup {Undef}

\* path ids: malformed, stored, or well-formed and unknown
UserIds == 0..(Len(users) + 1)

(***************************************************************************)
(* Requests in flight                                                      *)
(***************************************************************************)
Slots == 1..MaxInflight

NoResp == [status |-> 0, data |-> <<>>]

\* ops is the log of the store calls the request has made so far
Idle ==
    [route |-> "none", pc |-> "idle", email |-> Undef, id |-> 0,
     body |-> EmptyBody, local |-> <<>>, ops |-> <<>>, resp |-> NoResp]

Free(s) == reqs[s].pc \in {"idle", "done"}

\* the process: phase is "running" until process.exit(code); conn is the
\* state of the MongoClient; listening says that app.listen has been called;
\* signalled that a SIGINT or SIGTERM handler has started
NotExited == -1

\* the process once connectDB has connected and called app.listen
Serving ==
    [phase |-> "running", conn |-> "open", listening |-> TRUE,
     signalled |-> FALSE, code |-> NotExited]

\* the event loop runs callbacks only while the process lives
Running == proc.phase = "running"

\* a request arrives on the lowest slot never used; when every slot has been
\* used, on the lowest one whose request has been answered
CanStart(s) ==
    /\ Running
    /\ proc.listening
    /\ issued < MaxRequests
    /\ Free(s)
    /\ IF \E t \in Slots : reqs[t].pc = "idle"
       THEN reqs[s].pc = "idle" /\ \A t \in Slots : t < s => reqs[t].pc # "idle"
       ELSE \A t \in Slots : t < s => ~Free(t)

\* res.status(st).json(data)
Respond(r, st, data) == [r EXCEPT !.pc = "done", !.resp = [status |-> st, data |-> data]]

Arrive(route, email, id, body) ==
    [route |-> route, pc |-> "start", email |-> email, id |-> id,
     body |-> body, local |-> <<>>, ops |-> <<>>, resp |-> NoResp]

\* the store call op has been answered
Log(r, op) == [r EXCEPT !.ops = Append(@, op)]

At(s, route, pc) == Running /\ reqs[s].route = route /\ reqs[s].pc = pc

(***************************************************************************)
(* GET /users?email=  (admin only)                                         *)
(***************************************************************************)
\* the outcome of the caller lookup: 404 unknown, 403 no admin, 0 go on
ListUsersGate(coll, email) ==
    IF FindOneByEmail(coll, email) = 0 THEN 404
    ELSE IF ~Truthy(coll[FindOneByEmail(coll, email)].isAdmin) THEN 403
    ELSE 0

ListUsersStart(s, email) ==
    /\ CanStart(s)
    /\ reqs' = [reqs EXCEPT ![s] =
          IF ~Truthy(email)
          THEN Respond(Arrive("listUsers", email, 0, EmptyBody), 400, <<>>)
          ELSE [Arrive("listUsers", email, 0, EmptyBody) EXCEPT !.pc = "findOne"]]
    /\ issued' = issued + 1
    /\ UNCHANGED <<users, messages, guards, now, proc>>

ListUsersFindOne(s) ==
    /\ At(s, "listUsers", "findOne")
    /\ reqs' = [reqs EXCEPT ![s] = Log(
          IF ListUsersGate(users, reqs[s].email) # 0
          THEN Respond(reqs[s], ListUsersGate(users, reqs[s].email), <<>>)
          ELSE [reqs[s] EXCEPT !.pc = "find"], "users.findOne")]
    /\ UNCHANGED <<users, messages, guards, now, issued, proc>>

ListUsersFind(s) ==
    /\ At(s, "listUsers", "find")
    /\ reqs' = [reqs EXCEPT ![s] = Log( Respond(reqs[s], 200, ProjectAll(users)), "users.find")]
    /\ UNCHANGED <<users, messages, guards, now, issued, proc>>

(***************************************************************************)
(* GET /users/:email                                                       *)
(***************************************************************************)
\* the response for the path email against the collection
GetUserResponse(coll, email) ==
    IF FindOneByEmail(coll, email) = 0
    THEN [status |-> 404, data |-> <<>>]
    ELSE [status |-> 200, data |-> <<Sanitize(coll[FindOneByEmail(coll, email)])>>]

GetUserStart(s, email) ==
    /\ CanStart(s)
    /\ reqs' = [reqs EXCEPT ![s] =
          [Arrive("getUser", email, 0, EmptyBody) EXCEPT !.pc = "findOne"]]
    /\ issued' = issued + 1
    /\ UNCHANGED <<users, messages, guards, now, proc>>

GetUserFindOne(s) ==
    /\ At(s, "getUser", "findOne")
    /\ reqs' = [reqs EXCEPT ![s] = Log(
          [reqs[s] EXCEPT !.pc = "done",
                          !.resp = GetUserResponse(users, reqs[s].email)], "users.findOne")]
    /\ UNCHANGED <<users, messages, guards, now, issued, proc>>

(***************************************************************************)
(* POST /users                                                             *)
(***************************************************************************)
\* existingUser of POST /users: whether the lookup by email found a document
ExistingUserBlind(coll, email) == FALSE
ExistingUser(coll, email) == FindOneByEmail(coll, email) # 0

CreateUserStart(s, body) ==
    /\ CanStart(s)
    /\ reqs' = [reqs EXCEPT ![s] =
          IF ~Truthy(body.email)
          THEN Respond(Arrive("createUser", body.email, 0, body), 400, <<>>)
          ELSE [Arrive("createUser", body.email, 0, body) EXCEPT !.pc = "findOne"]]
    /\ issued' = issued + 1
    /\ UNCHANGED <<users, messages, guards, now, proc>>

CreateUserFindOne(s) ==
    /\ At(s, "createUser", "findOne")
    /\ reqs' = [reqs EXCEPT ![s] = Log(
          IF ExistingUser(users, reqs[s].body.email)
          THEN Respond(reqs[s], 400, <<>>)
          ELSE [reqs[s] EXCEPT !.pc = "insertOne",
                               !.local = <<NewUser(reqs[s].body, now)>>], "users.findOne")]
    /\ UNCHANGED <<users, messages, guards, now, issued, proc>>

CreateUserInsertOne(s) ==
    /\ At(s, "createUser", "insertOne")
    /\ users' = Append(users, reqs[s].local[1])
    /\ reqs' = [reqs EXCEPT ![s] = Log(
          [reqs[s] EXCEPT !.pc = "readBack", !.id = Len(users) + 1], "users.insertOne")]
    /\ UNCHANGED <<messages, guards, now, issued, proc>>

CreateUserReadBack(s) ==
    /\ At(s, "createUser", "readBack")
    /\ reqs' = [reqs EXCEPT ![s] = Log(
          Respond(reqs[s], 201, <<Sanitize(users[reqs[s].id])>>), "users.findOne")]
    /\ UNCHANGED <<users, messages, guards, now, issued, proc>>

(***************************************************************************)
(* PATCH /users/:email                                                     *)
(***************************************************************************)
\* updateOne({email}, {$set: upd}) : the collection after the update
UpdateOneByEmailRemoving(coll, email, upd) ==
    SelectSeq(coll, LAMBDA d : ~Matches(d.email, email))

UpdateOneByEmail(coll, email, upd) ==
    IF FindOneByEmail(coll, email) = 0 THEN coll
    ELSE [coll EXCEPT ![FindOneByEmail(coll, email)] =
              ApplySet(coll[FindOneByEmail(coll, email)], upd)]

\* { ...updateData, updatedAt: new Date() }
PatchFields(body, t) ==
    [k \in PresentKeys(body) \cup {"updatedAt"} |->
        IF k = "updatedAt" THEN t ELSE body[k]]

PatchUserStart(s, email, body) ==
    /\ CanStart(s)
    /\ reqs' = [reqs EXCEPT ![s] =
          IF PatchRejected(body)
          THEN Respond(Arrive("patchUser", email, 0, body), 403, <<>>)
          ELSE [Arrive("patchUser", email, 0, body) EXCEPT
                   !.pc = "updateOne", !.local = <<PatchFields(body, now)>>]]
    /\ issued' = issued + 1
    /\ UNCHANGED <<users, messages, guards, now, proc>>

PatchUserUpdateOne(s) ==
    /\ At(s, "patchUser", "updateOne")
    /\ users' = UpdateOneByEmail(users, reqs[s].email, reqs[s].local[1])
    /\ reqs' = [reqs EXCEPT ![s] = Log(
          IF FindOneByEmail(users, reqs[s].email) = 0
          THEN Respond(reqs[s], 404, <<>>)
          ELSE [reqs[s] EXCEPT !.pc = "findOne"], "users.updateOne")]
    /\ UNCHANGED <<messages, guards, now, issued, proc>>

\* the read-back is by email again: destructuring a null result throws,
\* and the catch block answers 500
PatchUserFindOne(s) ==
    /\ At(s, "patchUser", "findOne")
    /\ reqs' = [reqs EXCEPT ![s] = Log(
          IF FindOneByEmail(users, reqs[s].email) = 0
          THEN Respond(reqs[s], 500, <<>>)
          ELSE Respond(reqs[s], 200,
                       <<Sanitize(users[FindOneByEmail(users, reqs[s].email)])>>), "users.findOne")]
    /\ UNCHANGED <<users, messages, guards, now, issued, proc>>

(***************************************************************************)
(* PATCH /users/admin/:id  (admin only, requester named in the body)       *)
(***************************************************************************)
\* updateOne({_id}, {$set: upd}) : the collection after the update
UpdateOneByIdNever(coll, id, upd) == coll

UpdateOneById(coll, id, upd) ==
    IF FindOneById(coll, id) = 0 THEN coll
    ELSE [coll EXCEPT ![id] = ApplySet(coll[id], upd)]

SetAdminStart(s, id, body) ==
    /\ CanStart(s)
    /\ reqs' = [reqs EXCEPT ![s] =
          IF ~TypeofBoolean(body.isAdmin)
          THEN Respond(Arrive("setAdmin", body.requestingAdminEmail, id, body), 400, <<>>)
          ELSE [Arrive("setAdmin", body.requestingAdminEmail, id, body) EXCEPT
                   !.pc = "findOne"]]
    /\ issued' = issued + 1
    /\ UNCHANGED <<users, messages, guards, now, proc>>

\* after the check the arguments of updateOne are built: new ObjectId(id)
\* throws on a malformed id and the catch block answers 500
SetAdminFindOne(s) ==
    /\ At(s, "setAdmin", "findOne")
    /\ reqs' = [reqs EXCEPT ![s] = Log(
          IF ~IsAdminAt(users, FindOneByEmail(users, reqs[s].email))
          THEN Respond(reqs[s], 403, <<>>)
          ELSE IF ~ValidObjectId(reqs[s].id)
          THEN Respond(reqs[s], 500, <<>>)
          ELSE [reqs[s] EXCEPT
                   !.pc = "updateOne",
                   !.local = <<[isAdmin |-> reqs[s].body.isAdmin, updatedAt |-> now]>>],
          "users.findOne")]
    /\ UNCHANGED <<users, messages, guards, now, issued, proc>>

SetAdminUpdateOne(s) ==
    /\ At(s, "setAdmin", "updateOne")
    /\ users' = UpdateOneById(users, reqs[s].id, reqs[s].local[1])
    /\ reqs' = [reqs EXCEPT ![s] = Log(
          IF FindOneById(users, reqs[s].id) = 0
          THEN Respond(reqs[s], 404, <<>>)
          ELSE [reqs[s] EXCEPT !.pc = "readBack"],
          "users.updateOne")]
    /\ UNCHANGED <<messages, guards, now, issued, proc>>

SetAdminReadBack(s) ==
    /\ At(s, "setAdmin", "readBack")
    /\ reqs' = [reqs EXCEPT ![s] = Log(
          Respond(reqs[s], 200, <<Sanitize(users[reqs[s].id])>>),
          "users.findOne")]
    /\ UNCHANGED <<users, messages, guards, now, issued, proc>>

(***************************************************************************)
(* GET /users/role-check/:email                                            *)
(***************************************************************************)
RoleSummary(u) ==
    [email |-> u.email, isAdmin |-> OrElse(u.isAdmin, "false"),
     role |-> OrElse(u.role, "user")]

RoleCheckStart(s, email) ==
    /\ CanStart(s)
    /\ reqs' = [reqs EXCEPT ![s] =
          [Arrive("roleCheck", email, 0, EmptyBody) EXCEPT !.pc = "findOne"]]
    /\ issued' = issued + 1
    /\ UNCHANGED <<users, messages, guards, now, proc>>

RoleCheckFindOne(s) ==
    /\ At(s, "roleCheck", "findOne")
    /\ reqs' = [reqs EXCEPT ![s] = Log(
          IF FindOneByEmail(users, reqs[s].email) = 0
          THEN Respond(reqs[s], 404, <<>>)
          ELSE Respond(reqs[s], 200,
                       <<RoleSummary(users[FindOneByEmail(users, reqs[s].email)])>>),
          "users.findOne")]
    /\ UNCHANGED <<users, messages, guards, now, issued, proc>>

(***************************************************************************)
(* Guards (admin only): verifyAdmin, documents, inputs                     *)
(***************************************************************************)
\* async function verifyAdmin(email)
VerifyAdminNoLookup(coll, email) ==
    IF ~Truthy(email) THEN [ok |-> FALSE, status |-> 400]
    ELSE [ok |-> TRUE, status |-> 0]
VerifyAdmin(coll, email) ==
    IF ~Truthy(email) THEN [ok |-> FALSE, status |-> 400]
    ELSE IF ~IsAdminAt(coll, FindOneByEmail(coll, email))
    THEN [ok |-> FALSE, status |-> 403]
    ELSE [ok |-> TRUE, status |-> 0]

\* new Date(d) of a date string; -1 is the Invalid Date
ParseDate(d) == CASE d = "d0" -> 0 [] d = "d1" -> 1 [] OTHER -> -1

\* d ? new Date(d) : new Date()
DateOrNow(d, t) == IF Truthy(d) THEN ParseDate(d) ELSE t

\* typeof v === "number"
TypeofNumber(v) == v \in {"#0", "#100"}

\* one transaction entry of the body, normalised
NormTransaction(x, t) ==
    [type |-> x.type, amount |-> x.amount, date |-> DateOrNow(x.date, t),
     note |-> OrElse(x.note, Null)]

\* one presence seed of POST /guards, normalised
NormPresenceKeepingStatus(x, t) ==
    [status |-> x.status, date |-> DateOrNow(x.date, t)]
NormPresence(x, t) ==
    [status |-> OrElse(x.status, "absent"), date |-> DateOrNow(x.date, t)]

\* a seed list of the body is [kind, items]: kind "array" for an array,
\* "undefined" for a missing key (the default [] applies), "other" otherwise
SeedTransactions(seed, t) ==
    IF seed.kind = "array"
    THEN [i \in 1..Len(seed.items) |-> NormTransaction(seed.items[i], t)]
    ELSE <<>>

\* a null entry of a seed array, which has no property to read
NullItem == [k \in {} |-> Undef]

\* t.type and p.date throw a TypeError on a null entry
SeedThrows(seed) ==
    /\ seed.kind = "array"
    /\ \E i \in 1..Len(seed.items) : DOMAIN seed.items[i] = {}

SeedPresenceOneAbsent(seed, t) == <<[status |-> "absent", date |-> t]>>
SeedPresence(seed, t) ==
    IF seed.kind = "array"
    THEN [i \in 1..Len(seed.items) |-> NormPresence(seed.items[i], t)]
    ELSE <<>>

\* newGuard of POST /guards
NewGuard(body, t) ==
    [createdAt |-> t, updatedAt |-> t,
     name |-> body.name, phone |-> body.phone, nid |-> body.nid,
     address |-> OrElse(body.address, Null),
     joinDate |-> DateOrNow(body.joinDate, t),
     dutyPlace |-> body.dutyPlace, dutyTime |-> body.dutyTime,
     transactions |-> SeedTransactions(body.initialTransactions, t),
     presence |-> SeedPresence(body.initialPresence, t)]

\* !name || !phone || !nid || !dutyPlace || !dutyTime
GuardFieldsMissing(body) ==
    \/ ~Truthy(body.name) \/ ~Truthy(body.phone) \/ ~Truthy(body.nid)
    \/ ~Truthy(body.dutyPlace) \/ ~Truthy(body.dutyTime)

\* updateFields of PATCH /guards/:id; the body is a record of its own keys
GuardPatchFields(body, t) ==
    [k \in (DOMAIN body \ {"transactions", "presence"}) \cup {"updatedAt"} |->
        IF k = "updatedAt" THEN t ELSE body[k]]

\* a body key that names a path into the document: the amount of the first
\* entry of transactions
DottedKey == "transactions.0.amount"

\* $set of DottedKey on the transactions array: the first entry gets the
\* amount, and an empty array gets an entry that holds nothing else
SetFirstAmount(entries, v) ==
    IF entries = <<>> THEN <<[amount |-> v]>>
    ELSE [entries EXCEPT ![1] = [@ EXCEPT !.amount = v]]

\* { $set: upd } on one guard document: the plain keys overwrite, DottedKey
\* writes inside the array
ApplySetGuard(doc, upd) ==
    IF DottedKey \in DOMAIN upd
    THEN [ApplySet(doc, upd) EXCEPT !.transactions = SetFirstAmount(@, upd[DottedKey])]
    ELSE ApplySet(doc, upd)

\* updateOne({_id}, {$set: upd}) on the guards collection
UpdateGuardById(coll, id, upd) ==
    IF FindOneById(coll, id) = 0 THEN coll
    ELSE [coll EXCEPT ![id] = ApplySetGuard(coll[id], upd)]

\* updateOne({_id}, {$push: {key: entry}, $set: {updatedAt: t}})
PushByIdInFront(coll, id, key, entry, t) ==
    IF FindOneById(coll, id) = 0 THEN coll
    ELSE [coll EXCEPT ![id] =
              [coll[id] EXCEPT ![key] = <<entry>> \o @, !.updatedAt = t]]
PushByIdOverwriting(coll, id, key, entry, t) ==
    IF FindOneById(coll, id) = 0 THEN coll
    ELSE [coll EXCEPT ![id] =
              [coll[id] EXCEPT ![key] = <<entry>>, !.updatedAt = t]]
PushById(coll, id, key, entry, t) ==
    IF FindOneById(coll, id) = 0 THEN coll
    ELSE [coll EXCEPT ![id] =
              [coll[id] EXCEPT ![key] = Append(@, entry), !.updatedAt = t]]

NoSeed == [kind |-> "undefined", items |-> <<>>]

TransactionInputs ==
    {[type |-> "salary", amount |-> "#100", date |-> Undef, note |-> Undef],
     [type |-> Undef, amount |-> "#100", date |-> Undef, note |-> Undef],
     [type |-> "salary", amount |-> "100", date |-> Undef, note |-> Undef],
     [type |-> "advance", amount |-> "#0", date |-> "d0", note |-> "n"]}

PresenceInputs ==
    {[status |-> "present", date |-> "d1"], [status |-> "present", date |-> Undef],
     [status |-> Undef, date |-> "d1"]}

GuardBody(name, seedT, seedP) ==
    [name |-> name, phone |-> "017", nid |-> "19", address |-> Undef,
     joinDate |-> Undef, dutyPlace |-> "Gate1", dutyTime |-> "Day",
     initialTransactions |-> seedT, initialPresence |-> seedP]

\* request bodies of POST /guards
GuardBodies ==
    {GuardBody(Undef, NoSeed, NoSeed), GuardBody("A", NoSeed, NoSeed),
     GuardBody("A", [kind |-> "other", items |-> <<>>],
                    [kind |-> "array", items |-> <<[status |-> Undef, date |-> "d0"]>>]),
     GuardBody("A", [kind |-> "array",
                     items |-> <<[type |-> "salary", amount |-> "#100",
                                  date |-> Undef, note |-> Undef]>>],
                    NoSeed),
     GuardBody("A", [kind |-> "array",
                     items |-> <<[type |-> "salary", amount |-> "#100",
                                  date |-> Undef, note |-> Undef],
                                 [type |-> "advance", amount |-> "#0",
                                  date |-> "d0", note |-> "n"]>>],
                    [kind |-> "array",
                     items |-> <<[status |-> "present", date |-> "d1"],
                                 [status |-> Undef, date |-> "d0"]>>]),
     GuardBody("A", [kind |-> "array", items |-> <<NullItem>>], NoSeed)}
    \cup {[GuardBody("A", NoSeed, NoSeed) EXCEPT ![k] = Undef] :
            k \in {"phone", "nid", "dutyPlace", "dutyTime"}}

\* request bodies of PATCH /guards/:id
GuardPatchBodies ==
    {[name |-> "B"],
     [dutyPlace |-> "Gate2", transactions |-> <<>>],
     [presence |-> <<>>],
     [k \in {DottedKey} |-> "#0"],
     [k \in {"transactions", DottedKey} |-> IF k = DottedKey THEN "#0" ELSE <<>>]}

\* a guard document as POST /guards stores it at time 0
StoredGuard ==
    NewGuard(GuardBody("A", [kind |-> "array",
                             items |-> <<[type |-> "salary", amount |-> "#100",
                                          date |-> Undef, note |-> Undef]>>],
                            NoSeed), 0)

\* path ids: malformed, the first guard, the next one
GuardIds == {BadId, 1, 2}

\* the calls <<email, id, body>> of a guard route: the first caller with every
\* id and body, every other caller (and the missing one) with one of each
GuardCalls(bodies) ==
    {<<"a@x.co", i, b>> : i \in GuardIds, b \in bodies}
    \cup {<<e, 1, CHOOSE b \in bodies : TRUE>> : e \in QueryEmails}

\* the calls of POST /guards: every caller also sends a complete body
CreateGuardCalls ==
    GuardCalls(GuardBodies)
    \cup {<<e, 1, GuardBody("A", NoSeed, NoSeed)>> : e \in QueryEmails}

GuardRoutes ==
    {"listGuards", "getGuard", "createGuard", "patchGuard", "addTransaction",
     "addPresence", "getTransactions", "getPresence"}

(***************************************************************************)
(* Guard handlers                                                          *)
(***************************************************************************)
\* arrival of a guard request: the handler calls verifyAdmin, which answers
\* at once when the email is missing and otherwise awaits its lookup
GuardArrive(route, email, id, body) ==
    IF ~Truthy(email)
    THEN Respond(Arrive(route, email, id, body), VerifyAdmin(<<>>, email).status, <<>>)
    ELSE [Arrive(route, email, id, body) EXCEPT !.pc = "verify"]

GuardStart(s, r) ==
    /\ CanStart(s)
    /\ reqs' = [reqs EXCEPT ![s] = r]
    /\ issued' = issued + 1
    /\ UNCHANGED <<users, messages, guards, now, proc>>

ListGuardsStart(s, email) == GuardStart(s, GuardArrive("listGuards", email, 0, EmptyBody))

GetGuardStart(s, email, id) == GuardStart(s, GuardArrive("getGuard", email, id, EmptyBody))

CreateGuardStart(s, email, body) ==
    GuardStart(s, GuardArrive("createGuard", email, 0, body))

PatchGuardStart(s, email, id, body) ==
    GuardStart(s, GuardArrive("patchGuard", email, id, body))

AddTransactionStart(s, email, id, body) ==
    GuardStart(s, GuardArrive("addTransaction", email, id, body))

AddPresenceStart(s, email, id, body) ==
    GuardStart(s, GuardArrive("addPresence", email, id, body))

GetTransactionsStart(s, email, id) ==
    GuardStart(s, GuardArrive("getTransactions", email, id, EmptyBody))

GetPresenceStart(s, email, id) ==
    GuardStart(s, GuardArrive("getPresence", email, id, EmptyBody))

\* the handler's synchronous code between a successful verifyAdmin and its
\* first call on the guards collection, at time t
AfterVerify(r, t) ==
    CASE r.route = "listGuards" -> [r EXCEPT !.pc = "find"]
      [] r.route \in {"getGuard", "getTransactions", "getPresence"} ->
            IF ~ValidObjectId(r.id) THEN Respond(r, 500, <<>>)
            ELSE [r EXCEPT !.pc = "findOne"]
      [] r.route = "createGuard" ->
            IF GuardFieldsMissing(r.body) THEN Respond(r, 400, <<>>)
            ELSE IF SeedThrows(r.body.initialTransactions)
                    \/ SeedThrows(r.body.initialPresence)
            THEN Respond(r, 500, <<>>)
            ELSE [r EXCEPT !.pc = "insertOne", !.local = <<NewGuard(r.body, t)>>]
      [] r.route = "patchGuard" ->
            IF ~ValidObjectId(r.id) THEN Respond(r, 500, <<>>)
            ELSE [r EXCEPT !.pc = "updateOne",
                           !.local = <<GuardPatchFields(r.body, t)>>]
      [] r.route = "addTransaction" ->
            IF ~Truthy(r.body.type) \/ ~TypeofNumber(r.body.amount)
            THEN Respond(r, 400, <<>>)
            ELSE IF ~ValidObjectId(r.id) THEN Respond(r, 500, <<>>)
            ELSE [r EXCEPT !.pc = "updateOne",
                           !.local = <<NormTransaction(r.body, t), t>>]
      [] r.route = "addPresence" ->
            IF ~Truthy(r.body.date) \/ ~Truthy(r.body.status)
            THEN Respond(r, 400, <<>>)
            ELSE IF ~ValidObjectId(r.id) THEN Respond(r, 500, <<>>)
            ELSE [r EXCEPT !.pc = "updateOne",
                           !.local = <<[status |-> r.body.status,
                                        date |-> ParseDate(r.body.date)], t>>]

\* the lookup of verifyAdmin is answered
GuardVerify(s) ==
    /\ Running
    /\ reqs[s].route \in GuardRoutes
    /\ reqs[s].pc = "verify"
    /\ reqs' = [reqs EXCEPT ![s] = Log(
          IF ~VerifyAdmin(users, reqs[s].email).ok
          THEN Respond(reqs[s], VerifyAdmin(users, reqs[s].email).status, <<>>)
          ELSE AfterVerify(reqs[s], now),
          "users.findOne")]
    /\ UNCHANGED <<users, messages, guards, now, issued, proc>>

ListGuardsFind(s) ==
    /\ At(s, "listGuards", "find")
    /\ reqs' = [reqs EXCEPT ![s] = Log(Respond(reqs[s], 200, guards), "guards.find")]
    /\ UNCHANGED <<users, messages, guards, now, issued, proc>>

GetGuardFindOne(s) ==
    /\ At(s, "getGuard", "findOne")
    /\ reqs' = [reqs EXCEPT ![s] = Log(
          IF FindOneById(guards, reqs[s].id) = 0
          THEN Respond(reqs[s], 404, <<>>)
          ELSE Respond(reqs[s], 200, <<guards[reqs[s].id]>>),
          "guards.findOne")]
    /\ UNCHANGED <<users, messages, guards, now, issued, proc>>

CreateGuardInsertOne(s) ==
    /\ At(s, "createGuard", "insertOne")
    /\ guards' = Append(guards, reqs[s].local[1])
    /\ reqs' = [reqs EXCEPT ![s] = Log(
          [reqs[s] EXCEPT !.pc = "readBack", !.id = Len(guards) + 1],
          "guards.insertOne")]
    /\ UNCHANGED <<users, messages, now, issued, proc>>

\* the read-back by id that ends POST /guards, PATCH /guards/:id and the two
\* append routes
GuardReadBack(s) ==
    /\ Running
    /\ reqs[s].route \in {"createGuard", "patchGuard", "addTransaction", "addPresence"}
    /\ reqs[s].pc = "readBack"
    /\ reqs' = [reqs EXCEPT ![s] = Log(
          Respond(reqs[s], IF reqs[s].route = "createGuard" THEN 201 ELSE 200,
                  <<guards[reqs[s].id]>>),
          "guards.findOne")]
    /\ UNCHANGED <<users, messages, guards, now, issued, proc>>

\* the answer to updateOne's matchedCount
AfterUpdate(r, coll) ==
    IF FindOneById(coll, r.id) = 0 THEN Respond(r, 404, <<>>)
    ELSE [r EXCEPT !.pc = "readBack"]

PatchGuardUpdateOne(s) ==
    /\ At(s, "patchGuard", "updateOne")
    /\ guards' = UpdateGuardById(guards, reqs[s].id, reqs[s].local[1])
    /\ reqs' = [reqs EXCEPT ![s] = Log(AfterUpdate(reqs[s], guards), "guards.updateOne")]
    /\ UNCHANGED <<users, messages, now, issued, proc>>

AddTransactionUpdateOne(s) ==
    /\ At(s, "addTransaction", "updateOne")
    /\ guards' = PushById(guards, reqs[s].id, "transactions",
                          reqs[s].local[1], reqs[s].local[2])
    /\ reqs' = [reqs EXCEPT ![s] = Log(AfterUpdate(reqs[s], guards), "guards.updateOne")]
    /\ UNCHANGED <<users, messages, now, issued, proc>>

AddPresenceUpdateOne(s) ==
    /\ At(s, "addPresence", "updateOne")
    /\ guards' = PushById(guards, reqs[s].id, "presence",
                          reqs[s].local[1], reqs[s].local[2])
    /\ reqs' = [reqs EXCEPT ![s] = Log(AfterUpdate(reqs[s], guards), "guards.updateOne")]
    /\ UNCHANGED <<users, messages, now, issued, proc>>

\* guard.transactions || [] under the projection {transactions: 1}
GetTransactionsFindOne(s) ==
    /\ At(s, "getTransactions", "findOne")
    /\ reqs' = [reqs EXCEPT ![s] = Log(
          IF FindOneById(guards, reqs[s].id) = 0
          THEN Respond(reqs[s], 404, <<>>)
          ELSE Respond(reqs[s], 200, guards[reqs[s].id].transactions),
          "guards.findOne")]
    /\ UNCHANGED <<users, messages, guards, now, issued, proc>>

GetPresenceFindOne(s) ==
    /\ At(s, "getPresence", "findOne")
    /\ reqs' = [reqs EXCEPT ![s] = Log(
          IF FindOneById(guards, reqs[s].id) = 0
          THEN Respond(reqs[s], 404, <<>>)
          ELSE Respond(reqs[s], 200, guards[reqs[s].id].presence),
          "guards.findOne")]
    /\ UNCHANGED <<users, messages, guards, now, issued, proc>>

(***************************************************************************)
(* Messages: values, documents, inputs                                     *)
(***************************************************************************)
\* a JSON array with the single element "a@x.co"
ArrayOfEmail == "[a@x.co]"

\* typeof v === "string"
TypeofString(v) ==
    v \notin {"undefined", "null", "true", "false", "#0", "#100", ArrayOfEmail}

\* String(v), which RegExp.prototype.test applies to its argument: an array
\* becomes its elements joined by commas
StringOf(v) == IF v = ArrayOfEmail THEN "a@x.co" ELSE v

\* the characters of the strings that occur as emails
Chars(v) ==
    CASE v = "a@x.co" -> <<"a", "@", "x", ".", "c", "o">>
      [] v = "b@x.co" -> <<"b", "@", "x", ".", "c", "o">>
      [] v = "not-an-email" ->
            <<"n", "o", "t", "-", "a", "n", "-", "e", "m", "a", "i", "l">>
      [] v = "a@x" -> <<"a", "@", "x">>
      [] v = "a @x.co" -> <<"a", " ", "@", "x", ".", "c", "o">>
      [] v = "@x.co" -> <<"@", "x", ".", "c", "o">>
      [] v = "a@.co" -> <<"a", "@", ".", "c", "o">>
      [] OTHER -> <<>>

\* /^[^\s@]+@[^\s@]+\.[^\s@]+$/.test(v): the string splits into a non-empty
\* run, "@", a non-empty run, ".", a non-empty run, no run holding a blank
\* or an "@"
EmailRegexTest(v) ==
    \E i \in 2..Len(Chars(StringOf(v))), j \in 4..(Len(Chars(StringOf(v))) - 1) :
        /\ i + 1 < j
        /\ Chars(StringOf(v))[i] = "@"
        /\ Chars(StringOf(v))[j] = "."
        /\ \A k \in (1..Len(Chars(StringOf(v)))) \ {i, j} :
              Chars(StringOf(v))[k] \notin {" ", "@"}

\* newMessage of POST /users-message, built at time t
NewMessage(body, t) ==
    [email |-> body.email, createdAt |-> t, updatedAt |-> t, status |-> "new",
     name |-> body.name, phone |-> OrElse(body.phone, Null),
     message |-> body.message, userId |-> OrElse(body.userId, Null),
     userEmail |-> OrElse(body.userEmail, body.email), isRead |-> "false"]

\* !name || !email || !message
MessageFieldsMissing(body) ==
    ~Truthy(body.name) \/ ~Truthy(body.email) \/ ~Truthy(body.message)

\* updateData of PATCH /users-messages/:id, built at time t
MessagePatchFieldsSpreading(body, t) ==
    [k \in {"updatedAt"} \cup PresentKeys(body) |->
        IF k = "updatedAt" THEN t ELSE body[k]]
MessagePatchFields(body, t) ==
    [k \in {"updatedAt"}
           \cup (IF Truthy(body.status) /\ TypeofString(body.status)
                 THEN {"status"} ELSE {})
           \cup (IF TypeofBoolean(body.isRead) THEN {"isRead"} ELSE {}) |->
        IF k = "updatedAt" THEN t ELSE body[k]]

\* status === undefined && isRead === undefined
NoUpdateFields(body) == body.status = Undef /\ body.isRead = Undef

\* equality match of a filter value against a stored field that may be an
\* array: an array matches when it holds the value
MatchesField(d, f) == d = f \/ (d = ArrayOfEmail /\ f = StringOf(d))

\* indexes of the messages whose userEmail matches
UserEmailHits(coll, userEmail) ==
    {i \in 1..Len(coll) : MatchesField(coll[i].userEmail, userEmail)}

\* find(filter).sort({createdAt: -1}).toArray(): the orders in which the
\* documents with indexes S may come back; equal dates come in any order
SortedAsInserted(coll, S) ==
    {q \in [1..Cardinality(S) -> S] :
        \A k \in 1..(Cardinality(S) - 1) : q[k] < q[k + 1]}
SortedNewestFirst(coll, S) ==
    {q \in [1..Cardinality(S) -> S] :
        /\ \A k, l \in 1..Cardinality(S) : k # l => q[k] # q[l]
        /\ \A k \in 1..(Cardinality(S) - 1) :
              coll[q[k]].createdAt >= coll[q[k + 1]].createdAt}

\* the documents of coll in the order q
InOrder(coll, q) == [k \in DOMAIN q |-> coll[q[k]]]

MessageBody(name, email, userEmail) ==
    [email |-> email, name |-> name, phone |-> Undef, message |-> "m",
     userId |-> Undef, userEmail |-> userEmail]

MessageEmails == {"a@x.co", "not-an-email", "a@x", "a @x.co", "@x.co", "a@.co", ArrayOfEmail}

\* request bodies of POST /users-message
MessageBodies ==
    {MessageBody("n", e, Undef) : e \in MessageEmails \cup {Undef}}
    \cup {MessageBody("n", "a@x.co", u) : u \in {"b@x.co", "not-an-email"}}
    \cup {MessageBody(Undef, "a@x.co", Undef)}

\* the calls <<id, body>> of PATCH /users-messages/:id
MessagePatchCalls ==
    {<<1, [email |-> "a@x.co", status |-> st, isRead |-> r]>> :
        st \in {Undef, Null, "resolved", "archived"}, r \in {Undef, "true", "yes"}}
    \cup {<<i, [email |-> "a@x.co", status |-> "resolved", isRead |-> Undef]>> :
            i \in {BadId, 2}}
    \cup {<<1, [email |-> e, status |-> "resolved", isRead |-> Undef]>> :
            e \in {Undef, "b@x.co"}}

\* path values of GET /users-messages/:userEmail
PathEmails == {"a@x.co", "b@x.co", "not-an-email"}

\* a message as POST /users-message stores it at time 0
StoredMessage == NewMessage(MessageBody("n", "b@x.co", Undef), 0)

(***************************************************************************)
(* POST /users-message                                                     *)
(***************************************************************************)
CreateMessageStart(s, body) ==
    /\ CanStart(s)
    /\ reqs' = [reqs EXCEPT ![s] =
          IF MessageFieldsMissing(body) \/ ~EmailRegexTest(body.email)
          THEN Respond(Arrive("createMessage", body.email, 0, body), 400, <<>>)
          ELSE [Arrive("createMessage", body.email, 0, body) EXCEPT
                   !.pc = "insertOne", !.local = <<NewMessage(body, now)>>]]
    /\ issued' = issued + 1
    /\ UNCHANGED <<users, messages, guards, now, proc>>

\* the write is acknowledged (w=majority), and the answer is the document
CreateMessageInsertOne(s) ==
    /\ At(s, "createMessage", "insertOne")
    /\ messages' = Append(messages, reqs[s].local[1])
    /\ reqs' = [reqs EXCEPT ![s] = Log(
          Respond([reqs[s] EXCEPT !.id = Len(messages) + 1], 201,
                  <<reqs[s].local[1]>>),
          "messages.insertOne")]
    /\ UNCHANGED <<users, guards, now, issued, proc>>

(***************************************************************************)
(* GET /all-users-messages?email=  (admin only)                            *)
(***************************************************************************)
AllMessagesStart(s, email) ==
    /\ CanStart(s)
    /\ reqs' = [reqs EXCEPT ![s] =
          IF ~Truthy(email)
          THEN Respond(Arrive("allMessages", email, 0, EmptyBody), 400, <<>>)
          ELSE [Arrive("allMessages", email, 0, EmptyBody) EXCEPT !.pc = "findOne"]]
    /\ issued' = issued + 1
    /\ UNCHANGED <<users, messages, guards, now, proc>>

AllMessagesFindOne(s) ==
    /\ At(s, "allMessages", "findOne")
    /\ reqs' = [reqs EXCEPT ![s] = Log(
          IF ~IsAdminAt(users, FindOneByEmail(users, reqs[s].email))
          THEN Respond(reqs[s], 403, <<>>)
          ELSE [reqs[s] EXCEPT !.pc = "find"],
          "users.findOne")]
    /\ UNCHANGED <<users, messages, guards, now, issued, proc>>

AllMessagesFind(s) ==
    /\ At(s, "allMessages", "find")
    /\ \E q \in SortedNewestFirst(messages, 1..Len(messages)) :
          reqs' = [reqs EXCEPT ![s] = Log(
             Respond(reqs[s], 200, InOrder(messages, q)), "messages.find")]
    /\ UNCHANGED <<users, messages, guards, now, issued, proc>>

(***************************************************************************)
(* PATCH /users-messages/:id  (admin only, requester named in the body)    *)
(***************************************************************************)
PatchMessageStart(s, id, body) ==
    /\ CanStart(s)
    /\ reqs' = [reqs EXCEPT ![s] =
          IF ~Truthy(body.email)
          THEN Respond(Arrive("patchMessage", body.email, id, body), 400, <<>>)
          ELSE [Arrive("patchMessage", body.email, id, body) EXCEPT !.pc = "findOne"]]
    /\ issued' = issued + 1
    /\ UNCHANGED <<users, messages, guards, now, proc>>

\* after the check updateData is built; new ObjectId(id) throws on a
\* malformed id and the catch block answers 500
PatchMessageFindOne(s) ==
    /\ At(s, "patchMessage", "findOne")
    /\ reqs' = [reqs EXCEPT ![s] = Log(
          IF ~IsAdminAt(users, FindOneByEmail(users, reqs[s].email))
          THEN Respond(reqs[s], 403, <<>>)
          ELSE IF NoUpdateFields(reqs[s].body)
          THEN Respond(reqs[s], 400, <<>>)
          ELSE IF ~ValidObjectId(reqs[s].id)
          THEN Respond(reqs[s], 500, <<>>)
          ELSE [reqs[s] EXCEPT !.pc = "updateOne",
                               !.local = <<MessagePatchFields(reqs[s].body, now)>>],
          "users.findOne")]
    /\ UNCHANGED <<users, messages, guards, now, issued, proc>>

PatchMessageUpdateOne(s) ==
    /\ At(s, "patchMessage", "updateOne")
    /\ messages' = UpdateOneById(messages, reqs[s].id, reqs[s].local[1])
    /\ reqs' = [reqs EXCEPT ![s] = Log(
          IF FindOneById(messages, reqs[s].id) = 0
          THEN Respond(reqs[s], 404, <<>>)
          ELSE [reqs[s] EXCEPT !.pc = "readBack"],
          "messages.updateOne")]
    /\ UNCHANGED <<users, guards, now, issued, proc>>

PatchMessageReadBack(s) ==
    /\ At(s, "patchMessage", "readBack")
    /\ reqs' = [reqs EXCEPT ![s] = Log(
          Respond(reqs[s], 200, <<messages[reqs[s].id]>>), "messages.findOne")]
    /\ UNCHANGED <<users, messages, guards, now, issued, proc>>

(***************************************************************************)
(* GET /users-messages/:userEmail                                          *)
(***************************************************************************)
UserMessagesStart(s, userEmail) ==
    /\ CanStart(s)
    /\ reqs' = [reqs EXCEPT ![s] =
          IF ~EmailRegexTest(userEmail)
          THEN Respond(Arrive("userMessages", userEmail, 0, EmptyBody), 400, <<>>)
          ELSE [Arrive("userMessages", userEmail, 0, EmptyBody) EXCEPT !.pc = "find"]]
    /\ issued' = issued + 1
    /\ UNCHANGED <<users, messages, guards, now, proc>>

UserMessagesFind(s) ==
    /\ At(s, "userMessages", "find")
    /\ \E q \in SortedNewestFirst(messages, UserEmailHits(messages, reqs[s].email)) :
          reqs' = [reqs EXCEPT ![s] = Log(
             Respond(reqs[s], 200, InOrder(messages, q)), "messages.find")]
    /\ UNCHANGED <<users, messages, guards, now, issued, proc>>

(***************************************************************************)
(* The environment: store failures and the clock                           *)
(***************************************************************************)
\* a pending store call rejects: the handler's catch block answers 500 and
\* the call has no effect on the store
\* GET /health asks the server for its status before it answers
HealthStart(s) ==
    /\ CanStart(s)
    /\ reqs' = [reqs EXCEPT ![s] =
          [Arrive("health", Undef, 0, EmptyBody) EXCEPT !.pc = "command"]]
    /\ issued' = issued + 1
    /\ UNCHANGED <<users, messages, guards, now, proc>>

HealthCommand(s) ==
    /\ At(s, "health", "command")
    /\ reqs' = [reqs EXCEPT ![s] =
          Log(Respond(reqs[s], 200, <<>>), "admin.command")]
    /\ UNCHANGED <<users, messages, guards, now, issued, proc>>

StoreFailsUnanswered(s) ==
    /\ Running
    /\ reqs[s].pc \notin {"idle", "done"}
    /\ reqs' = [reqs EXCEPT ![s] = [Log(reqs[s], "failed") EXCEPT !.pc = "done"]]
    /\ UNCHANGED <<users, messages, guards, now, issued, proc>>
StoreFails(s) ==
    /\ Running
    /\ reqs[s].pc \notin {"idle", "done"}
    /\ reqs' = [reqs EXCEPT ![s] = Respond(Log(reqs[s], "failed"), 500, <<>>)]
    /\ UNCHANGED <<users, messages, guards, now, issued, proc>>

\* new Date() reads a clock that only moves forward
Tick ==
    /\ now < MaxClock
    /\ now' = now + 1
    /\ UNCHANGED <<users, messages, guards, reqs, issued, proc>>

(***************************************************************************)
(* The users subsystem                                                     *)
(***************************************************************************)
\* a user document as POST /users stores it at time 0
StoredUser(email, isAdmin) ==
    [email |-> email, isAdmin |-> isAdmin, emailVerified |-> "false",
     password |-> "pw", firebaseUID |-> "uid", role |-> Undef,
     createdAt |-> 0, updatedAt |-> 0, lastLogin |-> 0]

\* stores the API reaches from the empty one by POST /users
InitStores ==
    {<<>>,
     <<StoredUser("a@x.co", "true")>>,
     <<StoredUser("a@x.co", "true"), StoredUser("b@x.co", "false")>>}

Init ==
    /\ users \in InitStores
    /\ messages = <<>>
    /\ guards = <<>>
    /\ reqs = [s \in Slots |-> Idle]
    /\ now = 0
    /\ issued = 0
    /\ proc = Serving

NextUsers ==
    \E s \in Slots :
        \/ \E e \in QueryEmails : ListUsersStart(s, e)
        \/ ListUsersFindOne(s)
        \/ ListUsersFind(s)
        \/ \E e \in EmailVals : GetUserStart(s, e)
        \/ GetUserFindOne(s)
        \/ \E b \in CreateBodies : CreateUserStart(s, b)
        \/ CreateUserFindOne(s)
        \/ CreateUserInsertOne(s)
        \/ CreateUserReadBack(s)
        \/ \E e \in EmailVals, b \in PatchBodies : PatchUserStart(s, e, b)
        \/ PatchUserUpdateOne(s)
        \/ PatchUserFindOne(s)
        \/ \E i \in UserIds, b \in AdminBodies : SetAdminStart(s, i, b)
        \/ SetAdminFindOne(s)
        \/ SetAdminUpdateOne(s)
        \/ SetAdminReadBack(s)
        \/ \E e \in EmailVals : RoleCheckStart(s, e)
        \/ RoleCheckFindOne(s)
        \/ StoreFails(s)

Next == NextUsers \/ Tick

Spec == Init /\ [][Next]_vars

(***************************************************************************)
(* The guards subsystem, over a store that holds an admin and a plain user *)
(***************************************************************************)
InitGuards ==
    /\ users = <<StoredUser("a@x.co", "true"), StoredUser("b@x.co", "false")>>
    /\ messages = <<>>
    /\ guards \in {<<>>, <<StoredGuard>>}
    /\ reqs = [s \in Slots |-> Idle]
    /\ now = 0
    /\ issued = 0
    /\ proc = Serving

NextGuards ==
    \E s \in Slots :
        \/ \E e \in QueryEmails : ListGuardsStart(s, e)
        \/ \E c \in GuardCalls({EmptyBody}) : GetGuardStart(s, c[1], c[2])
        \/ \E c \in CreateGuardCalls : CreateGuardStart(s, c[1], c[3])
        \/ \E c \in GuardCalls(GuardPatchBodies) : PatchGuardStart(s, c[1], c[2], c[3])
        \/ \E c \in GuardCalls(TransactionInputs) :
              AddTransactionStart(s, c[1], c[2], c[3])
        \/ \E c \in GuardCalls(PresenceInputs) : AddPresenceStart(s, c[1], c[2], c[3])
        \/ \E c \in GuardCalls({EmptyBody}) : GetTransactionsStart(s, c[1], c[2])
        \/ \E c \in GuardCalls({EmptyBody}) : GetPresenceStart(s, c[1], c[2])
        \/ GuardVerify(s)
        \/ ListGuardsFind(s)
        \/ GetGuardFindOne(s)
        \/ CreateGuardInsertOne(s)
        \/ GuardReadBack(s)
        \/ PatchGuardUpdateOne(s)
        \/ AddTransactionUpdateOne(s)
        \/ AddPresenceUpdateOne(s)
        \/ GetTransactionsFindOne(s)
        \/ GetPresenceFindOne(s)
        \/ StoreFails(s)

SpecGuards == InitGuards /\ [][NextGuards \/ Tick]_vars

(***************************************************************************)
(* The messages subsystem, over the same users store                       *)
(***************************************************************************)
InitMessages ==
    /\ users = <<StoredUser("a@x.co", "true"), StoredUser("b@x.co", "false")>>
    /\ messages \in {<<>>, <<StoredMessage>>}
    /\ guards = <<>>
    /\ reqs = [s \in Slots |-> Idle]
    /\ now = 0
    /\ issued = 0
    /\ proc = Serving

NextMessages ==
    \E s \in Slots :
        \/ \E b \in MessageBodies : CreateMessageStart(s, b)
        \/ CreateMessageInsertOne(s)
        \/ \E e \in QueryEmails : AllMessagesStart(s, e)
        \/ AllMessagesFindOne(s)
        \/ AllMessagesFind(s)
        \/ \E c \in MessagePatchCalls : PatchMessageStart(s, c[1], c[2])
        \/ PatchMessageFindOne(s)
        \/ PatchMessageUpdateOne(s)
        \/ PatchMessageReadBack(s)
        \/ \E e \in PathEmails : UserMessagesStart(s, e)
        \/ UserMessagesFind(s)
        \/ StoreFails(s)

SpecMessages == InitMessages /\ [][NextMessages \/ Tick]_vars

(***************************************************************************)
(* The privileged routes together with PATCH /users/admin/:id; two racing  *)
(* POST /users may have stored the same email twice                        *)
(***************************************************************************)
InitAdmin ==
    /\ users \in {<<StoredUser("a@x.co", "true"), StoredUser("b@x.co", "false")>>,
                  <<StoredUser("a@x.co", "true"), StoredUser("a@x.co", "true")>>}
    /\ messages = <<StoredMessage>>
    /\ guards = <<>>
    /\ reqs = [s \in Slots |-> Idle]
    /\ now = 0
    /\ issued = 0
    /\ proc = Serving

NextAdmin ==
    \E s \in Slots :
        \/ \E i \in UserIds, b \in AdminBodies : SetAdminStart(s, i, b)
        \/ SetAdminFindOne(s)
        \/ SetAdminUpdateOne(s)
        \/ SetAdminReadBack(s)
        \/ \E e \in QueryEmails : ListUsersStart(s, e)
        \/ ListUsersFindOne(s)
        \/ ListUsersFind(s)
        \/ \E e \in QueryEmails : ListGuardsStart(s, e)
        \/ GuardVerify(s)
        \/ ListGuardsFind(s)
        \/ \E e \in QueryEmails : AllMessagesStart(s, e)
        \/ AllMessagesFindOne(s)
        \/ AllMessagesFind(s)
        \/ \E c \in MessagePatchCalls : PatchMessageStart(s, c[1], c[2])
        \/ PatchMessageFindOne(s)
        \/ PatchMessageUpdateOne(s)
        \/ PatchMessageReadBack(s)
        \/ StoreFails(s)

SpecAdmin == InitAdmin /\ [][NextAdmin \/ Tick]_vars

(***************************************************************************)
(* Every handler, each called by the admin with one well-formed request,   *)
(* over stores that hold one user, one message and one guard; the store    *)
(* answers every call in the end, so a handler that waits is resumed       *)
(***************************************************************************)
InitFaults ==
    /\ users = <<StoredUser("a@x.co", "true")>>
    /\ messages = <<StoredMessage>>
    /\ guards = <<StoredGuard>>
    /\ reqs = [s \in Slots |-> Idle]
    /\ now = 0
    /\ issued = 0
    /\ proc = Serving

\* the store answers the call that request s awaits and the handler runs on
HandlerStep(s) ==
    \/ ListUsersFindOne(s)
    \/ ListUsersFind(s)
    \/ GetUserFindOne(s)
    \/ CreateUserFindOne(s)
    \/ CreateUserInsertOne(s)
    \/ CreateUserReadBack(s)
    \/ PatchUserUpdateOne(s)
    \/ PatchUserFindOne(s)
    \/ SetAdminFindOne(s)
    \/ SetAdminUpdateOne(s)
    \/ SetAdminReadBack(s)
    \/ RoleCheckFindOne(s)
    \/ CreateMessageInsertOne(s)
    \/ AllMessagesFindOne(s)
    \/ AllMessagesFind(s)
    \/ PatchMessageFindOne(s)
    \/ PatchMessageUpdateOne(s)
    \/ PatchMessageReadBack(s)
    \/ UserMessagesFind(s)
    \/ GuardVerify(s)
    \/ ListGuardsFind(s)
    \/ GetGuardFindOne(s)
    \/ CreateGuardInsertOne(s)
    \/ GuardReadBack(s)
    \/ PatchGuardUpdateOne(s)
    \/ AddTransactionUpdateOne(s)
    \/ AddPresenceUpdateOne(s)
    \/ GetTransactionsFindOne(s)
    \/ GetPresenceFindOne(s)
    \/ HealthCommand(s)

NextFaults ==
    \E s \in Slots :
        \/ ListUsersStart(s, "a@x.co")
        \/ GetUserStart(s, "a@x.co")
        \/ CreateUserStart(s, [EmptyBody EXCEPT !.email = "b@x.co"])
        \/ PatchUserStart(s, "a@x.co", [EmptyBody EXCEPT !.role = "staff"])
        \/ SetAdminStart(s, 1, [isAdmin |-> "true", requestingAdminEmail |-> "a@x.co"])
        \/ RoleCheckStart(s, "a@x.co")
        \/ CreateMessageStart(s, MessageBody("n", "a@x.co", Undef))
        \/ AllMessagesStart(s, "a@x.co")
        \/ PatchMessageStart(s, 1, [email |-> "a@x.co", status |-> "resolved",
                                     isRead |-> Undef])
        \/ UserMessagesStart(s, "b@x.co")
        \/ ListGuardsStart(s, "a@x.co")
        \/ GetGuardStart(s, "a@x.co", 1)
        \/ CreateGuardStart(s, "a@x.co", GuardBody("A", NoSeed, NoSeed))
        \/ PatchGuardStart(s, "a@x.co", 1, [name |-> "B"])
        \/ AddTransactionStart(s, "a@x.co", 1,
                                [type |-> "salary", amount |-> "#100",
                                 date |-> Undef, note |-> Undef])
        \/ AddPresenceStart(s, "a@x.co", 1, [status |-> "present", date |-> "d1"])
        \/ GetTransactionsStart(s, "a@x.co", 1)
        \/ GetPresenceStart(s, "a@x.co", 1)
        \/ HealthStart(s)
        \/ HandlerStep(s)
        \/ StoreFails(s)

SpecFaults ==
    /\ InitFaults
    /\ [][NextFaults \/ Tick]_vars
    /\ \A s \in Slots : WF_vars(HandlerStep(s) \/ StoreFails(s))

(***************************************************************************)
(* The life of the process: connectDB, the signal handlers and exit, with  *)
(* two of the handlers served while it lives                               *)
(***************************************************************************)
\* the process when the module has been loaded: connectDB awaits
\* client.connect() and the signal handlers are registered
Starting ==
    [phase |-> "running", conn |-> "connecting", listening |-> FALSE,
     signalled |-> FALSE, code |-> NotExited]

\* process.exit(code)
Exit(p, code) == [p EXCEPT !.phase = "exited", !.listening = FALSE, !.code = code]

\* client.connect() resolves: the routes are registered and app.listen runs
ConnectSucceeds ==
    /\ Running
    /\ proc.conn = "connecting"
    /\ proc' = [proc EXCEPT !.conn = "open", !.listening = TRUE]
    /\ UNCHANGED <<users, messages, guards, reqs, now, issued>>

\* client.connect() rejects: the catch block of connectDB exits with code 1
ConnectFailsButListens ==
    /\ Running
    /\ proc.conn = "connecting"
    /\ proc' = [proc EXCEPT !.conn = "failed", !.listening = TRUE]
    /\ UNCHANGED <<users, messages, guards, reqs, now, issued>>

ConnectFails ==
    /\ Running
    /\ proc.conn = "connecting"
    /\ proc' = Exit([proc EXCEPT !.conn = "failed"], 1)
    /\ UNCHANGED <<users, messages, guards, reqs, now, issued>>

\* SIGINT or SIGTERM: the handler logs and awaits client.close(); the HTTP
\* server is left as it is
Signal ==
    /\ Running
    /\ ~proc.signalled
    /\ proc' = [proc EXCEPT !.signalled = TRUE]
    /\ UNCHANGED <<users, messages, guards, reqs, now, issued>>

\* client.close() resolves and the handler goes on to process.exit(0)
CloseResolves ==
    /\ Running
    /\ proc.signalled
    /\ proc.conn # "closeFailed"
    /\ proc' = Exit([proc EXCEPT !.conn = "closed"], 0)
    /\ UNCHANGED <<users, messages, guards, reqs, now, issued>>

\* client.close() rejects on an open connection: nothing catches the
\* rejection of the async handler, so the runtime either ends the process
\* with code 1 or only warns and lets it run on
CloseRejects ==
    /\ Running
    /\ proc.signalled
    /\ proc.conn = "open"
    /\ \E crash \in BOOLEAN :
          proc' = IF crash THEN Exit([proc EXCEPT !.conn = "closeFailed"], 1)
                  ELSE [proc EXCEPT !.conn = "closeFailed"]
    /\ UNCHANGED <<users, messages, guards, reqs, now, issued>>

InitLifecycle ==
    /\ users = <<StoredUser("a@x.co", "true")>>
    /\ messages = <<>>
    /\ guards = <<>>
    /\ reqs = [s \in Slots |-> Idle]
    /\ now = 0
    /\ issued = 0
    /\ proc = Starting

NextLifecycle ==
    \/ ConnectSucceeds
    \/ ConnectFails
    \/ Signal
    \/ CloseResolves
    \/ CloseRejects
    \/ \E s \in Slots :
          \/ HealthStart(s)
          \/ HealthCommand(s)
          \/ \E e \in EmailVals : RoleCheckStart(s, e)
          \/ RoleCheckFindOne(s)
          \/ StoreFails(s)

SpecLifecycle == InitLifecycle /\ [][NextLifecycle \/ Tick]_vars

(***************************************************************************)
(* Properties                                                              *)
(***************************************************************************)
Last(q) == q[Len(q)]

\* in this step the store answered the call op that request s was awaiting
\* at pc
Stepped(s, route, pc, op) ==
    /\ At(s, route, pc)
    /\ reqs'[s].ops = Append(reqs[s].ops, op)

\* in this step a request arrived on slot s
Arrived(s) == Free(s) /\ reqs'[s] # reqs[s]

\* request s does not go on: it is answered with status st
Answered(s, st) == reqs'[s].pc = "done" /\ reqs'[s].resp.status = st

\* some stored user has exactly this email
Registered(email) == \E i \in 1..Len(users) : users[i].email = email

\* some stored user has exactly this email and a true isAdmin
RegisteredAdmin(email) ==
    \E i \in 1..Len(users) : users[i].email = email /\ users[i].isAdmin = "true"

\* C1 (as claimed): GET /users?email=X answers 403 whenever no user has
\* email X or that user is no admin, and otherwise goes on to answer 200
\* with all users.
C1_ListUsersForbidden ==
    [][\A s \in Slots :
          /\ Stepped(s, "listUsers", "findOne", "users.findOne") =>
                IF RegisteredAdmin(reqs[s].email)
                THEN reqs'[s].pc = "find"
                ELSE Answered(s, 403)
          /\ Stepped(s, "listUsers", "find", "users.find") =>
                /\ Answered(s, 200)
                /\ Len(reqs'[s].resp.data) = Len(users)]_vars

\* C2 (as claimed): a PATCH /users/:E whose body has an isAdmin key or an
\* email key, whatever the value, is answered 403 on arrival and no step of
\* it changes the users collection.
C2_PatchUserRejectsKeys ==
    [][\A s \in Slots :
          (/\ reqs'[s] # reqs[s]
           /\ reqs'[s].route = "patchUser"
           /\ (reqs'[s].body.isAdmin # Undef \/ reqs'[s].body.email # Undef))
          => (Answered(s, 403) /\ users' = users)]_vars

\* C3 (as claimed): PATCH /users/admin/:id is refused at its check unless
\* requestingAdminEmail is present and is the email of a stored user whose
\* isAdmin is true at that time; only a request that passed the check
\* changes a user.
C3_SetAdminNeedsAdmin ==
    [][\A s \in Slots :
          /\ (/\ Stepped(s, "setAdmin", "findOne", "users.findOne")
              /\ ~(reqs[s].email # Undef /\ RegisteredAdmin(reqs[s].email)))
             => (Answered(s, 403) /\ users' = users)
          /\ (reqs[s].route = "setAdmin" /\ reqs'[s] # reqs[s] /\ users' # users)
             => reqs[s].pc = "updateOne"]_vars

\* C4 (as claimed): the stored isAdmin of a user changes only in the update
\* step of a PATCH /users/admin/:id.
C4_IsAdminOnlyBySetAdmin ==
    [][\A i \in 1..Len(users) :
          users'[i].isAdmin # users[i].isAdmin =>
             \E s \in Slots : Stepped(s, "setAdmin", "updateOne", "users.updateOne")]_vars

\* C5 (as claimed): in every reachable state no two stored users share an
\* email address.
C5_UniqueEmails ==
    \A i, j \in 1..Len(users) :
        (i # j /\ Truthy(users[i].email)) => users[i].email # users[j].email

\* C6: no answer of list users, get by email, create, update or update admin
\* status carries a password or a firebaseUID.
C6_NoSecretsInResponses ==
    \A s \in Slots :
        reqs[s].route \in {"listUsers", "getUser", "createUser", "patchUser", "setAdmin"}
        => \A k \in 1..Len(reqs[s].resp.data) :
              /\ reqs[s].resp.data[k].password = Undef
              /\ reqs[s].resp.data[k].firebaseUID = Undef

\* a user route has answered with a record whose stored original holds secrets
C6_Witness ==
    \E s \in Slots :
        /\ reqs[s].route \in {"getUser", "createUser", "patchUser", "setAdmin"}
        /\ reqs[s].resp.status \in {200, 201}
        /\ \E i \in 1..Len(users) :
              /\ users[i].password # Undef
              /\ users[i].firebaseUID # Undef
              /\ reqs[s].resp.data[1] = Sanitize(users[i])

\* what GET /users/:E would answer right after this step
GetAfter(email) == GetUserResponse(users', email)

\* C7 (as claimed): GET /users/:E answers 404 when no user has email E, and
\* right after a POST /users with email E has stored its record it answers
\* 200 with isAdmin=false and emailVerified=false, whatever else the body held.
C7_CreatedUserIsPlain ==
    [][\A s \in Slots :
          /\ (Stepped(s, "getUser", "findOne", "users.findOne")
              /\ ~Registered(reqs[s].email)) => Answered(s, 404)
          /\ Stepped(s, "createUser", "insertOne", "users.insertOne") =>
                /\ GetAfter(reqs[s].body.email).status = 200
                /\ GetAfter(reqs[s].body.email).data[1].isAdmin = "false"
                /\ GetAfter(reqs[s].body.email).data[1].emailVerified = "false"]_vars

\* C7 (amended): GET /users/:E answers 404 when no user has email E; right
\* after a POST /users with email E has stored its record, GET /users/:E
\* answers 200, the stored record has emailVerified=false and has
\* isAdmin=false unless the body carried a truthy isAdmin, which is stored as
\* given, and when no other record has email E the answer is that record,
\* sanitized.
C7_CreatedUserEchoesIsAdmin ==
    [][\A s \in Slots :
          /\ (Stepped(s, "getUser", "findOne", "users.findOne")
              /\ ~Registered(reqs[s].email)) => Answered(s, 404)
          /\ Stepped(s, "createUser", "insertOne", "users.insertOne") =>
                /\ GetAfter(reqs[s].body.email).status = 200
                /\ Len(users') = Len(users) + 1
                /\ Last(users').email = reqs[s].body.email
                /\ Last(users').emailVerified = "false"
                /\ Last(users').isAdmin =
                      (IF Truthy(reqs[s].body.isAdmin)
                       THEN reqs[s].body.isAdmin ELSE "false")
                /\ ~Registered(reqs[s].body.email) =>
                      GetAfter(reqs[s].body.email).data =
                         <<[Last(users') EXCEPT !.password = Undef,
                                                !.firebaseUID = Undef]>>]_vars

\* a POST /users without isAdmin has stored its record, and it is no admin
C7_Witness ==
    \E s \in Slots :
        /\ At(s, "createUser", "readBack")
        /\ reqs[s].body.isAdmin = Undef
        /\ users[reqs[s].id].email = reqs[s].body.email
        /\ users[reqs[s].id].isAdmin = "false"
        /\ users[reqs[s].id].emailVerified = "false"

\* C8: a POST /users whose email is that of a user stored when the handler
\* looks it up is answered 400, whatever the other body fields, and the users
\* collection stays as it is.
C8_DuplicateEmailRejected ==
    [][\A s \in Slots :
          (/\ Stepped(s, "createUser", "findOne", "users.findOne")
           /\ Registered(reqs[s].body.email))
          => (Answered(s, 400) /\ users' = users)]_vars

\* a POST /users has been answered 400 after its lookup found the email
C8_Witness ==
    \E s \in Slots :
        /\ At(s, "createUser", "done")
        /\ reqs[s].ops = <<"users.findOne">>
        /\ reqs[s].resp.status = 400
        /\ Registered(reqs[s].body.email)
        /\ reqs[s].body.password # Undef

GuardOps == {"guards.find", "guards.findOne", "guards.insertOne", "guards.updateOne"}

\* in this step the guards collection answered a call of request s
CalledGuards(s) == \E op \in GuardOps : reqs'[s].ops = Append(reqs[s].ops, op)

\* C9: a request of a guard route calls the guards collection only after its
\* own admin lookup was answered and passed; a check that fails (email
\* missing: 400, caller unknown or no admin: 403) ends the request with that
\* status and changes no collection; and no guard changes but in such a call.
C9_GuardsBehindAdminCheck ==
    [][/\ \A s \in Slots : reqs'[s].route \in GuardRoutes =>
            /\ CalledGuards(s) =>
                  /\ reqs[s].pc \notin {"idle", "done", "start", "verify"}
                  /\ reqs[s].ops # <<>>
                  /\ reqs[s].ops[1] = "users.findOne"
            /\ (Arrived(s) /\ reqs'[s].email = Undef) =>
                  /\ Answered(s, 400)
                  /\ UNCHANGED <<users, messages, guards>>
            /\ (Arrived(s) /\ reqs'[s].email # Undef) => reqs'[s].pc = "verify"
            /\ (/\ reqs[s].pc = "verify"
                /\ reqs'[s].ops = <<"users.findOne">>
                /\ ~RegisteredAdmin(reqs[s].email)) =>
                  /\ Answered(s, 403)
                  /\ UNCHANGED <<users, messages, guards>>
       /\ guards' # guards =>
            \E s \in Slots : reqs[s].route \in GuardRoutes /\ CalledGuards(s)]_vars

\* one guard request was refused at its check and another one, whose check
\* passed, has written to the guards collection
C9_Witness ==
    /\ \E s \in Slots :
          /\ reqs[s].route = "addTransaction"
          /\ reqs[s].ops = <<"users.findOne">>
          /\ reqs[s].resp.status = 403
    /\ \E s \in Slots :
          /\ reqs[s].route \in GuardRoutes
          /\ Len(reqs[s].ops) >= 2
          /\ reqs[s].ops[2] \in {"guards.insertOne", "guards.updateOne"}

\* the number of lookups in the users collection that request s has made
UserReads(r) == Cardinality({k \in 1..Len(r.ops) : r.ops[k] = "users.findOne"})

PrivilegedLookup(s) ==
    /\ \/ reqs[s].route \in {"listUsers", "setAdmin", "allMessages", "patchMessage"}
          /\ reqs[s].pc = "findOne"
       \/ reqs[s].route \in GuardRoutes /\ reqs[s].pc = "verify"
    /\ reqs'[s].ops = Append(reqs[s].ops, "users.findOne")

\* the lookup ends the request as not allowed
Refused(s) == reqs'[s].pc = "done" /\ reqs'[s].resp.status \in {403, 404}

\* C11 (as claimed): when a PATCH /users/admin/:id has completed for a user
\* with email X and no request but the two has been issued, the lookup of a
\* privileged request with caller email X refuses it if the PATCH set
\* isAdmin=false and accepts it if the PATCH set isAdmin=true.
C11_DecisionFollowsSetAdmin ==
    [][\A s, t \in Slots :
          (/\ s # t
           /\ issued = 2
           /\ reqs[t].route = "setAdmin"
           /\ reqs[t].pc = "done"
           /\ reqs[t].resp.status = 200
           /\ Truthy(reqs[s].email)
           /\ reqs[t].resp.data[1].email = reqs[s].email
           /\ PrivilegedLookup(s))
          => (Refused(s) <=> reqs[t].body.isAdmin = "false")]_vars

\* q begins with p
IsPrefix(p, q) == Len(p) <= Len(q) /\ SubSeq(q, 1, Len(p)) = p

\* C12 (as claimed): no step removes, reorders or replaces an entry of a
\* guard's transactions or presence: the sequence stored before the step is
\* a prefix of the one stored after it.
C12_AppendOnly ==
    [][\A i \in 1..Len(guards) :
          /\ Len(guards') >= Len(guards)
          /\ IsPrefix(guards[i].transactions, guards'[i].transactions)
          /\ IsPrefix(guards[i].presence, guards'[i].presence)]_vars

\* C13 (as claimed): the update of an admin-authorized PATCH /guards/:id whose
\* body has a transactions or a presence key leaves both stored sequences of
\* the guard as they were, stores every other body field and sets updatedAt.
C13_PatchKeepsSequences ==
    [][\A s \in Slots :
          (/\ Stepped(s, "patchGuard", "updateOne", "guards.updateOne")
           /\ FindOneById(guards, reqs[s].id) # 0
           /\ {"transactions", "presence"} \cap DOMAIN reqs[s].body # {})
          => /\ guards'[reqs[s].id].transactions = guards[reqs[s].id].transactions
             /\ guards'[reqs[s].id].presence = guards[reqs[s].id].presence
             /\ guards'[reqs[s].id].updatedAt = reqs[s].local[1].updatedAt
             /\ \A k \in DOMAIN reqs[s].body \cap
                          {"name", "phone", "nid", "address", "dutyPlace", "dutyTime"} :
                   guards'[reqs[s].id][k] = reqs[s].body[k]]_vars

\* request s is a POST /guards/:id/transactions whose update has reached
\* the stored guard id
Pushed(s) ==
    /\ reqs[s].route = "addTransaction"
    /\ \E k \in 1..Len(reqs[s].ops) : reqs[s].ops[k] = "guards.updateOne"
    /\ FindOneById(guards, reqs[s].id) # 0

\* C14: when a POST /guards/:id/transactions has been answered 200 and a
\* second one on the same guard, the only other request issued, makes its
\* update, the guard's transactions become the old entries followed by the
\* entry of the first request and then the entry of the second, each entry
\* carrying the type and amount of its body.
C14_SequentialAppendsInOrder ==
    [][\A s, t \in Slots :
          (/\ s # t
           /\ issued = 2
           /\ reqs[t].route = "addTransaction"
           /\ reqs[t].pc = "done"
           /\ reqs[t].resp.status = 200
           /\ Stepped(s, "addTransaction", "updateOne", "guards.updateOne")
           /\ reqs[s].id = reqs[t].id
           /\ FindOneById(guards, reqs[s].id) # 0)
          => /\ guards'[reqs[s].id].transactions =
                   StoredGuard.transactions \o <<reqs[t].local[1], reqs[s].local[1]>>
             /\ reqs[s].local[1].type = reqs[s].body.type
             /\ reqs[s].local[1].amount = reqs[s].body.amount
             /\ reqs[t].local[1].type = reqs[t].body.type
             /\ reqs[t].local[1].amount = reqs[t].body.amount
             /\ Answered(s, 200) \/ reqs'[s].pc = "readBack"]_vars

\* two appends with different bodies have been answered 200, the first one
\* having read the guard back before the second one wrote
C14_Witness ==
    /\ issued = 2
    /\ \A s \in Slots :
          /\ reqs[s].route = "addTransaction"
          /\ reqs[s].resp.status = 200
          /\ reqs[s].id = 1
    /\ reqs[1].body # reqs[2].body
    /\ Len(reqs[1].resp.data[1].transactions) = Len(StoredGuard.transactions) + 1
    /\ guards[1].transactions =
          StoredGuard.transactions \o <<reqs[1].local[1], reqs[2].local[1]>>

\* C15: when the only two requests issued are POST /guards/:id/transactions
\* on the same stored guard and the updates of both have been made, in
\* whatever interleaving, the guard's transactions are the old entries
\* followed by the two new ones in either order: length old+2, none lost.
C15_BothAppendsLand ==
    \A s, t \in Slots :
        (s # t /\ issued = 2 /\ Pushed(s) /\ Pushed(t) /\ reqs[s].id = reqs[t].id)
        => /\ Len(guards[reqs[s].id].transactions) = Len(StoredGuard.transactions) + 2
           /\ IsPrefix(StoredGuard.transactions, guards[reqs[s].id].transactions)
           /\ \/ SubSeq(guards[reqs[s].id].transactions,
                         Len(StoredGuard.transactions) + 1,
                         Len(StoredGuard.transactions) + 2)
                    = <<reqs[s].local[1], reqs[t].local[1]>>
              \/ SubSeq(guards[reqs[s].id].transactions,
                         Len(StoredGuard.transactions) + 1,
                         Len(StoredGuard.transactions) + 2)
                    = <<reqs[t].local[1], reqs[s].local[1]>>

\* two appends were in flight together, the second to arrive wrote first,
\* and both are waiting to read the guard back
C15_Witness ==
    /\ \A s \in Slots : Pushed(s) /\ reqs[s].pc = "readBack" /\ reqs[s].id = 1
    /\ reqs[1].body # reqs[2].body
    /\ guards[1].transactions =
          StoredGuard.transactions \o <<reqs[2].local[1], reqs[1].local[1]>>

\* request s is a POST /guards whose body has every required field
FullCreate(r) == r.route = "createGuard" /\ ~GuardFieldsMissing(r.body)

HasShape(v) ==
    /\ TypeofString(v)
    /\ \A k \in 1..Len(Chars(v)) : Chars(v)[k] # " "
    /\ Cardinality({k \in 1..Len(Chars(v)) : Chars(v)[k] = "@"}) = 1
    /\ Chars(v)[1] # "@"
    /\ \E k \in 1..Len(Chars(v)), j \in 2..(Len(Chars(v)) - 1) :
          Chars(v)[k] = "@" /\ k + 1 < j /\ Chars(v)[j] = "."

\* C17 (as claimed): a POST /users-message whose email has not the shape
\* local@domain.tld is answered 400 on arrival and stores nothing, and the
\* email of every stored message has that shape.
C17_StoredEmailsHaveShape ==
    [][/\ \A s \in Slots :
            (/\ Arrived(s)
             /\ reqs'[s].route = "createMessage"
             /\ ~HasShape(reqs'[s].body.email))
            => (Answered(s, 400) /\ messages' = messages)
       /\ \A i \in 1..Len(messages') : HasShape(messages'[i].email)]_vars

\* the documents of q are ordered by createdAt, newest first
NewestFirst(q) ==
    \A k \in 1..(Len(q) - 1) : q[k].createdAt >= q[k + 1].createdAt

\* C18 (as claimed): after a POST /users-message was answered 201, a
\* GET /users-messages/:u for the userEmail u stored on the message, the only
\* other request issued, passes its validation and answers 200 with a list
\* that holds the message and is ordered newest first.
C18_MessageRetrievable ==
    [][\A s, t \in Slots :
          (/\ s # t
           /\ issued' = 2
           /\ reqs[t].route = "createMessage"
           /\ reqs[t].resp.status = 201
           /\ reqs'[s].route = "userMessages"
           /\ reqs'[s].email = reqs[t].resp.data[1].userEmail)
          => /\ Arrived(s) => reqs'[s].pc = "find"
             /\ Stepped(s, "userMessages", "find", "messages.find") =>
                   /\ Answered(s, 200)
                   /\ \E k \in 1..Len(reqs'[s].resp.data) :
                         reqs'[s].resp.data[k] = reqs[t].resp.data[1]
                   /\ NewestFirst(reqs'[s].resp.data)]_vars

\* C19 (as claimed): the status of every stored message is one of new,
\* in-progress, resolved.
C19_StatusInEnumeration ==
    \A i \in 1..Len(messages) :
        messages[i].status \in {"new", "in-progress", "resolved"}

\* C20: a stored message changes only in the update step of a
\* PATCH /users-messages/:id whose lookup of the body email found an admin,
\* and that step leaves name, email, phone, message, userId, userEmail and
\* createdAt of every message as they were; no message is ever removed.
C20_MessageFrame ==
    [][/\ Len(messages') >= Len(messages)
       /\ \A i \in 1..Len(messages) :
            /\ \A k \in {"name", "email", "phone", "message", "userId",
                          "userEmail", "createdAt"} :
                  messages'[i][k] = messages[i][k]
            /\ messages'[i] # messages[i] =>
                  \E s \in Slots :
                      /\ Stepped(s, "patchMessage", "updateOne", "messages.updateOne")
                      /\ reqs[s].id = i
                      /\ reqs[s].ops = <<"users.findOne">>
                      /\ RegisteredAdmin(reqs[s].body.email)]_vars

\* an admin's PATCH has changed status, isRead and updatedAt of a stored
\* message and has been answered 200 with the message
C20_Witness ==
    \E s \in Slots :
        /\ reqs[s].route = "patchMessage"
        /\ reqs[s].resp.status = 200
        /\ reqs[s].resp.data[1] = messages[reqs[s].id]
        /\ messages[reqs[s].id] =
              [StoredMessage EXCEPT !.status = "resolved", !.isRead = "true",
                                    !.updatedAt = 1]

\* q holds every document of coll exactly once
Permutation(q, coll) ==
    /\ Len(q) = Len(coll)
    /\ \E f \in [1..Len(coll) -> 1..Len(coll)] :
          /\ \A k, l \in 1..Len(coll) : k # l => f[k] # f[l]
          /\ \A k \in 1..Len(coll) : q[k] = coll[f[k]]

C22_StoreFailureAnswered500 ==
    /\ [][\A s \in Slots :
             /\ reqs'[s].ops = Append(reqs[s].ops, "failed") =>
                   /\ reqs[s].pc \notin {"idle", "done"}
                   /\ Answered(s, 500)
                   /\ UNCHANGED <<users, messages, guards>>
             /\ reqs'[s].pc = "done" => reqs'[s].resp.status # 0
             /\ reqs'[s].pc # "done" => reqs'[s].resp.status = 0
             /\ (reqs[s].pc = "done" /\ reqs'[s] # reqs[s]) =>
                   (issued' = issued + 1 /\ reqs'[s].ops = <<>>)]_vars
    /\ \A s \in Slots :
          (reqs[s].pc \notin {"idle", "done"}) ~> (reqs[s].pc = "done")

\* a request whose last store call failed was answered 500, and the other,
\* which wrote to a collection, was answered 200 or 201
C22_Witness ==
    \E s, t \in Slots :
        /\ reqs[s].pc = "done"
        /\ Len(reqs[s].ops) >= 2
        /\ Last(reqs[s].ops) = "failed"
        /\ reqs[s].resp.status = 500
        /\ reqs[t].pc = "done"
        /\ reqs[t].resp.status \in {200, 201}
        /\ \E k \in 1..Len(reqs[t].ops) :
              reqs[t].ops[k] \in {"users.updateOne", "guards.updateOne",
                                  "messages.insertOne"}

\* C23: the write of PATCH /users/admin/:id does not look at the requester
\* again: once the check has let a request through, its updateOne sets the
\* stored target's isAdmin to the body's value whatever the requester's
\* isAdmin is by then, so a requester demoted in between still gets its
\* change applied.
C23_WriteWithoutRecheck ==
    [][\A s \in Slots :
         (/\ Stepped(s, "setAdmin", "updateOne", "users.updateOne")
          /\ reqs[s].id \in 1..Len(users)) =>
            /\ users'[reqs[s].id].isAdmin = reqs[s].body.isAdmin
            /\ reqs'[s].pc = "readBack"]_vars

\* admin a asked twice to change a's own isAdmin: the request for false was
\* answered with a record showing isAdmin false, and a is an admin now, so
\* the request for true, let through while a was an admin, wrote after a
\* had been demoted
C23_Witness ==
    \E s, t \in Slots :
        /\ Len(users) >= 1
        /\ users[1].email = "a@x.co"
        /\ users[1].isAdmin = "true"
        /\ reqs[t].route = "setAdmin"
        /\ reqs[t].id = 1
        /\ reqs[t].body.isAdmin = "false"
        /\ reqs[t].pc = "done"
        /\ reqs[t].resp.status = 200
        /\ reqs[t].resp.data[1].isAdmin = "false"
        /\ reqs[s].route = "setAdmin"
        /\ reqs[s].email = "a@x.co"
        /\ reqs[s].id = 1
        /\ reqs[s].body.isAdmin = "true"
        /\ reqs[s].ops = <<"users.findOne", "users.updateOne">>

\* C24 (as claimed): PATCH /users/admin/:id answers 400 before any lookup
\* when body isAdmin is no boolean and 400 when requestingAdminEmail is
\* absent; a request the check lets through answers 404 and changes no
\* record when the id resolves to no user, and otherwise changes only
\* isAdmin and updatedAt of the target.
C24_SetAdminOutcomes ==
    [][\A s \in Slots :
         /\ (Arrived(s) /\ reqs'[s].route = "setAdmin") =>
               /\ ~TypeofBoolean(reqs'[s].body.isAdmin) =>
                     Answered(s, 400) /\ reqs'[s].ops = <<>>
               /\ reqs'[s].body.requestingAdminEmail = Undef =>
                     Answered(s, 400) /\ reqs'[s].ops = <<>>
         /\ Stepped(s, "setAdmin", "findOne", "users.findOne") =>
               \/ Answered(s, 403)
               \/ reqs'[s].pc = "updateOne"
               \/ Answered(s, 404) /\ reqs[s].id \notin 1..Len(users)
         /\ Stepped(s, "setAdmin", "updateOne", "users.updateOne") =>
               IF reqs[s].id \in 1..Len(users)
               THEN /\ reqs'[s].pc = "readBack"
                    /\ Len(users') = Len(users)
                    /\ \A i \in 1..Len(users) :
                          \A k \in DOMAIN users[i] :
                              users'[i][k] # users[i][k] =>
                                  i = reqs[s].id /\ k \in {"isAdmin", "updatedAt"}
               ELSE Answered(s, 404) /\ users' = users]_vars

\* C25 (as claimed): PATCH /users-messages/:id answers 400 when the body
\* email is absent, 403 when the email identifies no admin, 400 when the
\* body has neither status nor isRead, 404 when the id resolves to no
\* message, and modifies no message in these four cases; on success a field
\* of status and isRead that the body did not provide keeps its stored
\* value.
C25_PatchMessageOutcomes ==
    [][\A s \in Slots :
         /\ (Arrived(s) /\ reqs'[s].route = "patchMessage") =>
               /\ messages' = messages
               /\ IF reqs'[s].body.email = Undef
                  THEN Answered(s, 400)
                  ELSE reqs'[s].pc = "findOne"
         /\ Stepped(s, "patchMessage", "findOne", "users.findOne") =>
               /\ messages' = messages
               /\ IF ~RegisteredAdmin(reqs[s].body.email)
                  THEN Answered(s, 403)
                  ELSE IF reqs[s].body.status = Undef /\ reqs[s].body.isRead = Undef
                  THEN Answered(s, 400)
                  ELSE IF reqs[s].id \notin 1..Len(messages)
                  THEN Answered(s, 404) \/ reqs'[s].pc = "updateOne"
                  ELSE reqs'[s].pc = "updateOne"
         /\ Stepped(s, "patchMessage", "updateOne", "messages.updateOne") =>
               IF reqs[s].id \notin 1..Len(messages)
               THEN Answered(s, 404) /\ messages' = messages
               ELSE /\ reqs'[s].pc = "readBack"
                    /\ reqs[s].body.status = Undef =>
                          messages'[reqs[s].id].status = messages[reqs[s].id].status
                    /\ reqs[s].body.isRead = Undef =>
                          messages'[reqs[s].id].isRead = messages[reqs[s].id].isRead]_vars

\* C26 (as claimed): a PATCH /users/:email whose body names neither email nor
\* isAdmin answers 404 and changes nothing when no user has that email;
\* otherwise its update overwrites exactly the fields the body names plus
\* updatedAt on the one user it finds, leaves every other field and every
\* other user unchanged, and the request is answered 200 with the sanitized
\* record.
C26_PatchUserFrame ==
    [][\A s \in Slots :
         (/\ reqs[s].route = "patchUser"
          /\ PresentKeys(reqs[s].body) \cap {"email", "isAdmin"} = {}) =>
            /\ Stepped(s, "patchUser", "updateOne", "users.updateOne") =>
                  IF ~Registered(reqs[s].email)
                  THEN Answered(s, 404) /\ users' = users
                  ELSE /\ reqs'[s].pc = "findOne"
                       /\ Len(users') = Len(users)
                       /\ \E i \in 1..Len(users) :
                             /\ users[i].email = reqs[s].email
                             /\ \A j \in 1..Len(users) : j # i => users'[j] = users[j]
                             /\ \A k \in DOMAIN users[i] :
                                   users'[i][k] =
                                      IF k \in PresentKeys(reqs[s].body)
                                      THEN reqs[s].body[k]
                                      ELSE IF k = "updatedAt"
                                      THEN reqs[s].local[1].updatedAt
                                      ELSE users[i][k]
            /\ Stepped(s, "patchUser", "findOne", "users.findOne") =>
                  /\ Answered(s, 200)
                  /\ users' = users
                  /\ \E i \in 1..Len(users) :
                        /\ users[i].email = reqs[s].email
                        /\ reqs'[s].resp.data = <<Sanitize(users[i])>>]_vars

\* the guards other than guard i are as they were, and none was added
OnlyGuardChanged(i) ==
    /\ Len(guards') = Len(guards)
    /\ \A j \in 1..Len(guards) : j # i => guards'[j] = guards[j]

\* C27 (as claimed): for an admin caller POST /guards/:id/transactions
\* answers 400 when type is missing or amount is no number and 404 when the
\* id resolves to no guard, modifying no guard in both cases; on success
\* exactly one entry {type, amount, date, note}, note null when not given,
\* is added at the end of that guard's transactions and no other guard
\* changes.
C27_AddTransactionOutcomes ==
    [][\A s \in Slots :
         /\ (/\ Stepped(s, "addTransaction", "verify", "users.findOne")
             /\ RegisteredAdmin(reqs[s].email)) =>
               /\ guards' = guards
               /\ IF reqs[s].body.type = Undef \/ ~TypeofNumber(reqs[s].body.amount)
                  THEN Answered(s, 400)
                  ELSE IF reqs[s].id \notin 1..Len(guards)
                  THEN Answered(s, 404) \/ reqs'[s].pc = "updateOne"
                  ELSE reqs'[s].pc = "updateOne"
         /\ Stepped(s, "addTransaction", "updateOne", "guards.updateOne") =>
               IF reqs[s].id \notin 1..Len(guards)
               THEN Answered(s, 404) /\ guards' = guards
               ELSE /\ reqs'[s].pc = "readBack"
                    /\ OnlyGuardChanged(reqs[s].id)
                    /\ Len(guards'[reqs[s].id].transactions) =
                          Len(guards[reqs[s].id].transactions) + 1
                    /\ IsPrefix(guards[reqs[s].id].transactions,
                                guards'[reqs[s].id].transactions)
                    /\ LET e == Last(guards'[reqs[s].id].transactions)
                       IN  /\ DOMAIN e = {"type", "amount", "date", "note"}
                           /\ e.type = reqs[s].body.type
                           /\ e.amount = reqs[s].body.amount
                           /\ e.note = IF reqs[s].body.note = Undef THEN Null
                                       ELSE reqs[s].body.note]_vars

\* C28 (as claimed): for an admin caller POST /guards/:id/presence answers
\* 400 and modifies nothing when date or status is missing, answers 404
\* when the id resolves to no guard, and otherwise adds exactly one
\* {date, status} entry at the end of that guard's presence and leaves its
\* transactions as they were.
C28_AddPresenceOutcomes ==
    [][\A s \in Slots :
         /\ (/\ Stepped(s, "addPresence", "verify", "users.findOne")
             /\ RegisteredAdmin(reqs[s].email)) =>
               /\ guards' = guards
               /\ IF reqs[s].body.date = Undef \/ reqs[s].body.status = Undef
                  THEN Answered(s, 400)
                  ELSE IF reqs[s].id \notin 1..Len(guards)
                  THEN Answered(s, 404) \/ reqs'[s].pc = "updateOne"
                  ELSE reqs'[s].pc = "updateOne"
         /\ Stepped(s, "addPresence", "updateOne", "guards.updateOne") =>
               IF reqs[s].id \notin 1..Len(guards)
               THEN Answered(s, 404) /\ guards' = guards
               ELSE /\ reqs'[s].pc = "readBack"
                    /\ OnlyGuardChanged(reqs[s].id)
                    /\ guards'[reqs[s].id].transactions = guards[reqs[s].id].transactions
                    /\ Len(guards'[reqs[s].id].presence) =
                          Len(guards[reqs[s].id].presence) + 1
                    /\ IsPrefix(guards[reqs[s].id].presence, guards'[reqs[s].id].presence)
                    /\ LET e == Last(guards'[reqs[s].id].presence)
                       IN  /\ DOMAIN e = {"date", "status"}
                           /\ e.status = reqs[s].body.status
                           /\ e.date = ParseDate(reqs[s].body.date)]_vars

\* the entries a seed input supplies: those of an array, none otherwise
Supplied(seed) == IF seed.kind = "array" THEN seed.items ELSE <<>>

\* C29: for an admin caller POST /guards answers 400 and stores nothing when
\* name, phone, nid, dutyPlace or dutyTime is missing; a guard is stored
\* only by the insert of a POST /guards, and its transactions and presence
\* then have the length and the order of the supplied seed lists, are
\* empty for a seed that is no array, and a presence seed without status
\* is stored with status "absent".
C29_CreateGuardSeeds ==
    [][/\ \A s \in Slots :
            /\ (/\ Stepped(s, "createGuard", "verify", "users.findOne")
                /\ RegisteredAdmin(reqs[s].email)
                /\ \E k \in {"name", "phone", "nid", "dutyPlace", "dutyTime"} :
                      reqs[s].body[k] = Undef) =>
                  Answered(s, 400) /\ guards' = guards
            /\ Stepped(s, "createGuard", "insertOne", "guards.insertOne") =>
                  /\ Len(guards') = Len(guards) + 1
                  /\ \A k \in {"name", "phone", "nid", "dutyPlace", "dutyTime"} :
                        reqs[s].body[k] # Undef
                  /\ LET g == guards'[Len(guards')]
                         st == Supplied(reqs[s].body.initialTransactions)
                         sp == Supplied(reqs[s].body.initialPresence)
                     IN  /\ Len(g.transactions) = Len(st)
                         /\ \A k \in 1..Len(st) :
                               /\ g.transactions[k].type = st[k].type
                               /\ g.transactions[k].amount = st[k].amount
                         /\ Len(g.presence) = Len(sp)
                         /\ \A k \in 1..Len(sp) :
                               /\ g.presence[k].status =
                                     IF sp[k].status = Undef THEN "absent"
                                     ELSE sp[k].status
                               /\ g.presence[k].date = ParseDate(sp[k].date)
       /\ Len(guards') # Len(guards) =>
             \E s \in Slots :
                 Stepped(s, "createGuard", "insertOne", "guards.insertOne")]_vars

\* a guard was created from two transaction seeds and two presence seeds,
\* the second without status, and another from a transactions seed that is
\* no array
C29_Witness ==
    \E s, t \in Slots :
        /\ reqs[s].route = "createGuard"
        /\ reqs[s].resp.status = 201
        /\ Len(reqs[s].body.initialTransactions.items) = 2
        /\ reqs[s].body.initialPresence.items[2].status = Undef
        /\ Len(reqs[s].resp.data[1].transactions) = 2
        /\ reqs[s].resp.data[1].transactions[2].type = "advance"
        /\ reqs[s].resp.data[1].presence[1].status = "present"
        /\ reqs[s].resp.data[1].presence[2].status = "absent"
        /\ reqs[t].route = "createGuard"
        /\ reqs[t].resp.status = 201
        /\ reqs[t].body.initialTransactions.kind = "other"
        /\ reqs[t].resp.data[1].transactions = <<>>

\* C30 (as claimed): for an admin caller and an id that identifies no stored
\* guard, GET /guards/:id, PATCH /guards/:id, GET /guards/:id/transactions
\* and GET /guards/:id/presence are answered 404; for the id of a stored
\* guard the two log reads are answered 200 with exactly that guard's
\* stored sequence.
C30_UnknownGuardIs404 ==
    [][\A s \in Slots :
         reqs[s].route \in {"getGuard", "patchGuard", "getTransactions", "getPresence"} =>
            /\ (/\ reqs[s].pc = "verify"
                /\ reqs'[s].ops = <<"users.findOne">>
                /\ RegisteredAdmin(reqs[s].email)) =>
                  IF reqs[s].id \in 1..Len(guards)
                  THEN reqs'[s].pc \in {"findOne", "updateOne"}
                  ELSE Answered(s, 404) \/ reqs'[s].pc \in {"findOne", "updateOne"}
            /\ (/\ reqs[s].pc \in {"findOne", "updateOne"}
                /\ reqs'[s].ops = <<"users.findOne", "guards." \o reqs[s].pc>>) =>
                  IF reqs[s].id \notin 1..Len(guards)
                  THEN Answered(s, 404) /\ guards' = guards
                  ELSE CASE reqs[s].route = "getTransactions" ->
                              /\ Answered(s, 200)
                              /\ reqs'[s].resp.data = guards[reqs[s].id].transactions
                         [] reqs[s].route = "getPresence" ->
                              /\ Answered(s, 200)
                              /\ reqs'[s].resp.data = guards[reqs[s].id].presence
                         [] reqs[s].route = "getGuard" -> Answered(s, 200)
                         [] OTHER -> reqs'[s].pc = "readBack"]_vars

\* the _ids stored in a collection
Ids(coll) == 1..Len(coll)

\* C31: no step of any handler removes a record: the sets of stored user
\* ids, message ids and guard ids never shrink.
C31_NoRecordRemoved ==
    [][/\ Ids(users) \subseteq Ids(users')
       /\ Ids(messages) \subseteq Ids(messages')
       /\ Ids(guards) \subseteq Ids(guards')]_vars

\* a PATCH /users/:email has updated the stored user and a POST /users has
\* added a second one
C31_Witness ==
    \E s, t \in Slots :
        /\ reqs[s].route = "patchUser"
        /\ reqs[s].resp.status = 200
        /\ reqs[t].route = "createUser"
        /\ reqs[t].resp.status = 201
        /\ Ids(users) = {1, 2}
        /\ users[1].role = "staff"

\* C32 (as claimed): after SIGINT or SIGTERM no request is accepted, and the
\* exit of the signal handler comes only when the store connection has
\* been closed.
C32_OrderlyShutdown ==
    [][/\ \A s \in Slots : Arrived(s) => ~proc.signalled
       /\ (proc'.phase = "exited" /\ proc'.code = 0) => proc'.conn = "closed"]_vars

\* C33: the server starts listening only in the step in which the initial
\* connect succeeds, a request arrives only at a listening process whose
\* connect has succeeded, and a failed connect ends the process, which has
\* never listened; an ended process does nothing more.
C33_ListenOnlyAfterConnect ==
    [][/\ (proc'.listening /\ ~proc.listening) =>
             (proc.conn = "connecting" /\ proc'.conn = "open")
       /\ \A s \in Slots :
             Arrived(s) => (proc.listening /\ proc.conn \in {"open", "closeFailed"})
       /\ proc'.conn = "failed" =>
             (proc'.phase = "exited" /\ ~proc'.listening /\ issued' = 0)
       /\ proc.phase = "exited" => UNCHANGED <<users, messages, guards, reqs, issued, proc>>]_vars

\* a request was answered by the process that had connected and was
\* listening
C33_Witness ==
    \E s \in Slots :
        /\ reqs[s].route = "roleCheck"
        /\ reqs[s].resp.status = 200
        /\ reqs[s].ops = <<"users.findOne">>
        /\ proc.conn = "open"
        /\ proc.listening

\* no stored user has isAdmin true
NoAdmin(coll) == \A i \in 1..Len(coll) : coll[i].isAdmin # "true"

\* C34 (as claimed): a PATCH /users/admin/:id passes its check only when its
\* requestingAdminEmail is the email of an admin; a stored user's isAdmin
\* becomes true only in the update of such a PATCH, a user is stored with
\* isAdmin true only by the insert of a POST /users whose body has a truthy
\* isAdmin, and a store without an admin gets one by no other step.
C34_AdminOnlyTwoWays ==
    [][/\ \A s \in Slots :
            (/\ Stepped(s, "setAdmin", "findOne", "users.findOne")
             /\ reqs'[s].pc = "updateOne") =>
               (reqs[s].email # Undef /\ RegisteredAdmin(reqs[s].email))
       /\ \A i \in 1..Len(users) :
            (users[i].isAdmin # "true" /\ users'[i].isAdmin = "true") =>
               \E s \in Slots :
                   /\ Stepped(s, "setAdmin", "updateOne", "users.updateOne")
                   /\ reqs[s].id = i
       /\ \A i \in (Len(users) + 1)..Len(users') :
            users'[i].isAdmin = "true" =>
               \E s \in Slots :
                   /\ Stepped(s, "createUser", "insertOne", "users.insertOne")
                   /\ Truthy(reqs[s].body.isAdmin)
       /\ (NoAdmin(users) /\ ~NoAdmin(users')) =>
             \E s \in Slots :
                 \/ /\ Stepped(s, "createUser", "insertOne", "users.insertOne")
                    /\ Truthy(reqs[s].body.isAdmin)
                 \/ Stepped(s, "setAdmin", "updateOne", "users.updateOne")]_vars

=============================================================================
